---- MODULE Spec2Model ----
(***************************************************************************)
(* Verification model of rrug_core.py (RRUG Core, Reactive Rig UI          *)
(* Generator): the state-management section (cascade, temporal comparator, *)
(* the two guards, guard_enforcer, the polling tick with its two caches)   *)
(* and the layout helpers.                                                 *)
(*                                                                         *)
(* Bone collections are identified by their position in the scanner's      *)
(* traversal order (depth-first pre-order), which is also the insertion    *)
(* order of node_map and therefore the order in which both guards iterate. *)
(* The flags a collection name carries are kept as the set active_flags.   *)
(* Writes to a collection's is_solo are taken to succeed (the host accepts *)
(* them); None is modelled by 0 for a parent id, and a missing packet by   *)
(* the empty node map the comparator and the cascade read it as.           *)
(***************************************************************************)
EXTENDS Integers, Sequences, FiniteSets, TLC

\* ---------------------------------------------------------------- bounds
MaxNodes == 3        \* collections of the tree handed to the stabilizer
MaxIds == 6          \* sibling ids available to the row-grouping helper
MaxShuffled == 4     \* longest sibling list tried in every order of its ids
MaxArms == 1         \* armature identities (as_pointer values) of the session
MaxTickNodes == 2    \* collections of an armature in the polling specification

\* ------------------------------------------------------- program constants
max_iters == 10      \* guard_enforcer: for _ in range(max_iters)

Nodes == 1..MaxNodes
Arms == 1..MaxArms
TickNodes == 1..MaxTickNodes
Ids == 1..MaxIds
None == 0

VARIABLES
    collections,     \* arm.collections_all: name -> [is_visible, is_solo]
    node_map,        \* current_packet["node_map"]
    old_packet,      \* node_map of the packet cached by the previous tick
    change_log,      \* diff log of _run_temporal_comparator
    rounds,          \* iterations of the guard_enforcer loop started so far
    phase,           \* position inside guard_enforcer / the cascade call
    last_call,       \* arguments of the last direct call (start, new_state)
    node_names,      \* argument of _helper_generate_clean_layout
    layout_rows,     \* its return value
    armatures,       \* bpy.data.armatures: identity -> collections_all
    arm_struct,      \* identity -> parent links and flags of its collections
    rrug_ui_data_cache,          \* _rrug_ui_data_cache
    entrance_gatekeeper_cache,   \* _entrance_gatekeeper_cache
    last_tick,       \* the path the last run of rrug_ui_timer_update took
    source,          \* the external tree handed to run_structure_scanner
    ignore_skip,     \* run_structure_scanner's ignore_skip argument
    scan_result,     \* the packet run_structure_scanner returns
    packet,          \* the packet run_ui_data_preparation works on and returns
    snap_calls,      \* the groups process_snap_group was called on, in order
    raw_name,        \* argument of _parse_collection_name
    parsed,          \* its result and the label run_data_parsing stores
    pipe_phase,      \* position of the call under study
    pose_bones,      \* obj.pose.bones: name -> location, rotation, scale
    keyframes,       \* the keyframes inserted: pairs of bone and data path
    snap_op          \* RRUG_OT_snap_hierarchy_batch: its inputs and what it returned

gvars == <<collections, node_map, old_packet, change_log, rounds, phase, last_call>>
lvars == <<node_names, layout_rows>>
tvars == <<armatures, arm_struct, rrug_ui_data_cache, entrance_gatekeeper_cache,
           last_tick>>
pvars == <<source, ignore_skip, scan_result, packet, snap_calls, raw_name, parsed,
           pipe_phase>>
ovars == <<pose_bones, keyframes, snap_op>>
vars == <<gvars, lvars, tvars, pvars, ovars>>

\* ------------------------------------------------------------ generic folds
RECURSIVE FoldSeq(_, _, _)
FoldSeq(Op(_, _), acc, s) ==
    IF s = <<>> THEN acc ELSE FoldSeq(Op, Op(acc, Head(s)), Tail(s))

RECURSIVE SortedSeq(_)
SortedSeq(S) ==
    IF S = {} THEN <<>>
    ELSE LET m == CHOOSE x \in S : \A y \in S : x <= y
         IN <<m>> \o SortedSeq(S \ {m})

\* node_map.items(): insertion order is the scanner's traversal order
Items(nm) == SortedSeq(DOMAIN nm)

Range(s) == {s[i] : i \in DOMAIN s}

\* --------------------------------------------------- forests in pre-order
RECURSIVE AncestorsOrSelf(_, _)
AncestorsOrSelf(par, n) ==
    IF n = None THEN {} ELSE {n} \cup AncestorsOrSelf(par, par[n])

\* parent functions a depth-first pre-order numbering can produce
ForestsOver(S) ==
    {par \in [S -> {None} \cup S] :
        /\ par[1] = None
        /\ \A i \in S \ {1} :
              par[i] = None \/ par[i] \in AncestorsOrSelf(par, i - 1)}

PreorderForests == ForestsOver(Nodes)

ChildrenOf(par, n) == SortedSeq({c \in DOMAIN par : par[c] = n})

ZoneMarkers == {"DISPLAYS", "SETTINGS", "SNAPS", "INTERNALS"}

\* lines 351-354 and 363-366: the zone a name's markers select (None: "NONE")
ZoneOfName(marks) ==
    IF "DISPLAYS" \in marks THEN "VIS"
    ELSE IF "SETTINGS" \in marks THEN "PROP"
    ELSE IF "SNAPS" \in marks THEN "SNAP"
    ELSE IF "INTERNALS" \in marks THEN "INTERNAL"
    ELSE "NONE"

\* the zone handed down the parent chain: the first marker met from the root
\* down decides (line 362 reads the name only while no zone is inherited)
RECURSIVE TreeTypeOf(_, _, _)
InheritedOr(up, own) == IF up = "NONE" THEN own ELSE up
TreeTypeOf(par, flags, n) ==
    IF par[n] = None THEN ZoneOfName(flags[n])
    ELSE InheritedOr(TreeTypeOf(par, flags, par[n]), ZoneOfName(flags[n]))

\* link_meta: <<>> for None, else one record
NoLink == <<>>

\* the node_map the scanner and parser produce for a forest with given flags
ScannedNodeMap(par, flags, colls) ==
    [n \in DOMAIN par |->
        [parent        |-> par[n],
         children      |-> ChildrenOf(par, n),
         is_visible    |-> colls[n].is_visible,
         is_solo       |-> colls[n].is_solo,
         active_flags  |-> flags[n],
         ui_layout     |-> <<>>,
         link_meta     |-> NoLink,
         tree_type     |-> TreeTypeOf(par, flags, n),
         is_snap_group |-> FALSE]]

\* ------------------------------------------------------------ state helpers
safe_get_collection(colls, name) == name \in DOMAIN colls

RECURSIVE GetDescendantNames(_, _)
RECURSIVE DescendantsOfList(_, _)
GetDescendantNamesWhole(nm, name) == Items(nm)

GetDescendantNames(nm, name) ==
    DescendantsOfList(nm, IF name \in DOMAIN nm THEN nm[name].children ELSE <<>>)
DescendantsOfList(nm, kids) ==
    IF kids = <<>> THEN <<>>
    ELSE <<Head(kids)>> \o GetDescendantNames(nm, Head(kids))
                        \o DescendantsOfList(nm, Tail(kids))

\* ------------------------------------------------- _cascade_solo_state
\* one iteration of "for name in to_toggle_names"; st = [colls, nm]
\* variant: blind propagation, the HIDE exception forgotten
CascadeOneBlind(st, name, new_state) ==
    IF ~safe_get_collection(st.colls, name) THEN st
    ELSE [colls |-> [st.colls EXCEPT ![name].is_solo = new_state],
          nm    |-> IF name \in DOMAIN st.nm
                    THEN [st.nm EXCEPT ![name].is_solo = new_state]
                    ELSE st.nm]

CascadeOne(st, name, new_state) ==
    IF ~safe_get_collection(st.colls, name) THEN st
    ELSE LET has_node == name \in DOMAIN st.nm
             final_state ==
                 IF /\ new_state
                    /\ has_node
                    /\ "HIDE" \in st.nm[name].active_flags
                    /\ ~st.colls[name].is_visible
                 THEN FALSE ELSE new_state
         IN [colls |-> [st.colls EXCEPT ![name].is_solo = final_state],
             nm    |-> IF has_node
                       THEN [st.nm EXCEPT ![name].is_solo = final_state]
                       ELSE st.nm]

cascade_solo_stateAnyStart(colls, nm, start_coll_name, new_state) ==
    LET to_toggle_names ==
            <<start_coll_name>> \o GetDescendantNames(nm, start_coll_name)
        Step(st, name) == CascadeOne(st, name, new_state)
    IN FoldSeq(Step, [colls |-> colls, nm |-> nm], to_toggle_names)

cascade_solo_state(colls, nm, start_coll_name, new_state) ==
    IF ~safe_get_collection(colls, start_coll_name)
    THEN [colls |-> colls, nm |-> nm]
    ELSE LET to_toggle_names ==
                 <<start_coll_name>> \o GetDescendantNames(nm, start_coll_name)
             Step(st, name) == CascadeOne(st, name, new_state)
         IN FoldSeq(Step, [colls |-> colls, nm |-> nm], to_toggle_names)

\* ------------------------------------------------ _run_temporal_comparator
monitored_keys == <<"is_visible", "is_solo">>

NodeChanges(old_node, new_node) ==
    LET Add(changes, key) ==
            IF new_node[key] # old_node[key]
            THEN Append(changes, [property |-> key, to |-> new_node[key]])
            ELSE changes
    IN FoldSeq(Add, <<>>, monitored_keys)

\* diff_log.get(name, []) for every name of the new map
\* old_map is {} (here <<>>) when old_packet is None
run_temporal_comparator(old_map, new_map) ==
    [name \in DOMAIN new_map |->
        IF name \notin DOMAIN old_map THEN <<>>
        ELSE NodeChanges(old_map[name], new_map[name])]

\* ------------------------------------------------------- _guard_hide_state
\* one iteration of the loop over node_map.items(); st = [colls, nm, act]
Acted(st, r) == [colls |-> r.colls, nm |-> r.nm, act |-> TRUE]

\* variant: the safety net for drifted states left out
GuardHideOneNoNet(log, st, coll_name) ==
    LET node_data == st.nm[coll_name]
        parent_id == node_data.parent
        vis_changes == SelectSeq(log[coll_name], LAMBDA c : c.property = "is_visible")
    IN IF "HIDE" \notin node_data.active_flags THEN st
       ELSE IF /\ parent_id # None
               /\ ~(parent_id \in DOMAIN st.nm /\ st.nm[parent_id].is_solo)
       THEN st
       ELSE IF vis_changes # <<>>
       THEN IF Head(vis_changes).to = TRUE
            THEN IF ~node_data.is_solo
                 THEN Acted(st, cascade_solo_state(st.colls, st.nm, coll_name, TRUE))
                 ELSE st
            ELSE IF node_data.is_solo
                 THEN Acted(st, cascade_solo_state(st.colls, st.nm, coll_name, FALSE))
                 ELSE st
       ELSE st

\* variant: the hidden -> visible transition does not restore solo
GuardHideOneNoRestore(log, st, coll_name) ==
    LET node_data == st.nm[coll_name]
        parent_id == node_data.parent
        vis_changes == SelectSeq(log[coll_name], LAMBDA c : c.property = "is_visible")
    IN IF "HIDE" \notin node_data.active_flags THEN st
       ELSE IF /\ parent_id # None
               /\ ~(parent_id \in DOMAIN st.nm /\ st.nm[parent_id].is_solo)
       THEN st
       ELSE IF vis_changes # <<>>
       THEN IF Head(vis_changes).to = TRUE
            THEN st
            ELSE IF node_data.is_solo
                 THEN Acted(st, cascade_solo_state(st.colls, st.nm, coll_name, FALSE))
                 ELSE st
       ELSE IF ~node_data.is_visible /\ node_data.is_solo
       THEN Acted(st, cascade_solo_state(st.colls, st.nm, coll_name, FALSE))
       ELSE st

GuardHideOne(log, st, coll_name) ==
    LET node_data == st.nm[coll_name]
        parent_id == node_data.parent
        vis_changes == SelectSeq(log[coll_name], LAMBDA c : c.property = "is_visible")
    IN IF "HIDE" \notin node_data.active_flags THEN st
       ELSE IF /\ parent_id # None
               /\ ~(parent_id \in DOMAIN st.nm /\ st.nm[parent_id].is_solo)
       THEN st
       ELSE IF vis_changes # <<>>
       THEN IF Head(vis_changes).to = TRUE
            THEN IF ~node_data.is_solo
                 THEN Acted(st, cascade_solo_state(st.colls, st.nm, coll_name, TRUE))
                 ELSE st
            ELSE IF node_data.is_solo
                 THEN Acted(st, cascade_solo_state(st.colls, st.nm, coll_name, FALSE))
                 ELSE st
       ELSE IF ~node_data.is_visible /\ node_data.is_solo
       THEN Acted(st, cascade_solo_state(st.colls, st.nm, coll_name, FALSE))
       ELSE st

guard_hide_state(colls, log, nm) ==
    LET Step(st, name) == GuardHideOne(log, st, name)
    IN FoldSeq(Step, [colls |-> colls, nm |-> nm, act |-> FALSE], Items(nm))

\* ------------------------------------------------------- _guard_solo_state
\* children that are in the map and not HIDE-flagged-and-invisible
RelevantChildren(nm, name) ==
    SelectSeq(nm[name].children,
              LAMBDA cid : /\ cid \in DOMAIN nm
                           /\ ~("HIDE" \in nm[cid].active_flags /\ ~nm[cid].is_visible))

\* variant: the change log is not consulted
JustTurnedOnIgnored(log, name) == FALSE

JustTurnedOn(log, name) ==
    \E i \in DOMAIN log[name] :
        log[name][i].property = "is_solo" /\ log[name][i].to = TRUE

\* variant: the full-nest rule left out
GuardSoloOneNoFullNest(log, st, coll_name) ==
    LET node_data == st.nm[coll_name]
        relevant_children == RelevantChildren(st.nm, coll_name)
        no_children_solo == ~\E i \in DOMAIN relevant_children :
                                 st.nm[relevant_children[i]].is_solo
    IN IF node_data.children = <<>> THEN st
       ELSE IF relevant_children = <<>> THEN st
       ELSE IF node_data.is_solo /\ no_children_solo
       THEN IF ~JustTurnedOn(log, coll_name)
            THEN Acted(st, cascade_solo_state(st.colls, st.nm, coll_name, FALSE))
            ELSE st
       ELSE st

GuardSoloOne(log, st, coll_name) ==
    LET node_data == st.nm[coll_name]
        curr_solo == node_data.is_solo
        relevant_children == RelevantChildren(st.nm, coll_name)
        all_children_solo == \A i \in DOMAIN relevant_children :
                                 st.nm[relevant_children[i]].is_solo
        no_children_solo == ~\E i \in DOMAIN relevant_children :
                                 st.nm[relevant_children[i]].is_solo
    IN IF node_data.children = <<>> THEN st
       ELSE IF relevant_children = <<>> THEN st
       ELSE IF curr_solo /\ no_children_solo
       THEN IF ~JustTurnedOn(log, coll_name)
            THEN Acted(st, cascade_solo_state(st.colls, st.nm, coll_name, FALSE))
            ELSE st
       ELSE IF ~curr_solo /\ all_children_solo
       THEN Acted(st, cascade_solo_state(st.colls, st.nm, coll_name, TRUE))
       ELSE st

guard_solo_state(colls, log, nm) ==
    LET Step(st, name) == GuardSoloOne(log, st, name)
    IN FoldSeq(Step, [colls |-> colls, nm |-> nm, act |-> FALSE], Items(nm))

\* ----------------------------------------------------------- guard_enforcer
\* "for coll in arm.collections_all": re-read both attributes into node_map
\* variant: the two attributes mixed up when re-reading
RefreshNodeMapMixed(colls, nm) ==
    [name \in DOMAIN nm |->
        IF name \in DOMAIN colls
        THEN [nm[name] EXCEPT !.is_visible = colls[name].is_visible,
                              !.is_solo    = colls[name].is_visible]
        ELSE nm[name]]

RefreshNodeMap(colls, nm) ==
    [name \in DOMAIN nm |->
        IF name \in DOMAIN colls
        THEN [nm[name] EXCEPT !.is_visible = colls[name].is_visible,
                              !.is_solo    = colls[name].is_solo]
        ELSE nm[name]]

\* one iteration of the loop body: [colls, nm, act]
GuardRoundResult(colls, log, nm) ==
    LET h == guard_hide_state(colls, log, nm)
        s == guard_solo_state(h.colls, log, h.nm)
        acted == h.act \/ s.act
    IN [colls |-> s.colls,
        nm    |-> IF acted THEN RefreshNodeMap(s.colls, s.nm) ELSE s.nm,
        act   |-> acted]

\* where the loop stands after iteration number n (1-based) has run
\* variant: loop until no guard acts, without the cap
AfterRoundNoCap(acted, n) ==
    IF ~acted THEN "fixpoint" ELSE "loop"

AfterRound(acted, n) ==
    IF ~acted THEN "fixpoint"
    ELSE IF n >= max_iters THEN "cap"
    ELSE "loop"

\* the whole of guard_enforcer: [colls, nm, rounds, exit]
RECURSIVE GuardLoop(_, _, _, _)
\* the loop after iteration n has produced r
GuardLoopFrom(r, log, n) ==
    IF AfterRound(r.act, n) = "loop" THEN GuardLoop(r.colls, log, r.nm, n + 1)
    ELSE [colls |-> r.colls, nm |-> r.nm, rounds |-> n, exit |-> AfterRound(r.act, n)]

GuardLoop(colls, log, nm, n) == GuardLoopFrom(GuardRoundResult(colls, log, nm), log, n)

guard_enforcer(colls, old, nm) ==
    IF DOMAIN nm = {}
    THEN [colls |-> colls, nm |-> nm, rounds |-> 0, exit |-> "empty"]
    ELSE GuardLoop(colls, run_temporal_comparator(old, nm), nm, 1)


\* ------------------------------------------- _helper_generate_clean_layout
FlagsOf(nm, name) == IF name \in DOMAIN nm THEN nm[name].active_flags ELSE {}

LayoutStep(nm, acc, name) ==
    LET buffer == Append(acc.current_row_buffer, name)
    IN IF "JOIN" \notin FlagsOf(nm, name)
       THEN [layout_rows |-> Append(acc.layout_rows, buffer),
             current_row_buffer |-> <<>>]
       ELSE [layout_rows |-> acc.layout_rows, current_row_buffer |-> buffer]

\* variant: the trailing buffer is dropped instead of committed
CommitTrailingDropped(acc) == acc.layout_rows

CommitTrailing(acc) ==
    IF acc.current_row_buffer # <<>>
    THEN Append(acc.layout_rows, acc.current_row_buffer)
    ELSE acc.layout_rows

helper_generate_clean_layout(names, nm) ==
    LET Step(acc, name) == LayoutStep(nm, acc, name)
    IN CommitTrailing(
           FoldSeq(Step, [layout_rows |-> <<>>, current_row_buffer |-> <<>>], names))

\* --------------------------------------------------- _helper_resolve_links
LinkMeta(partner, is_source) == <<[partner |-> partner, is_source |-> is_source]>>

\* the loop body at index i (1-based): lines 510-525
ResolveLinkAt(names, nm, i) ==
    IF names[i] \notin DOMAIN nm THEN nm
    ELSE IF /\ "LINK" \in nm[names[i]].active_flags
            /\ i + 1 <= Len(names)
            /\ names[i + 1] \in DOMAIN nm
         THEN [[nm EXCEPT ![names[i]].link_meta = LinkMeta(names[i + 1], TRUE)]
                   EXCEPT ![names[i + 1]].link_meta = LinkMeta(names[i], FALSE)]
         ELSE nm

helper_resolve_links(names, nm) ==
    LET Step(acc, i) == ResolveLinkAt(names, acc, i)
    IN FoldSeq(Step, nm, [i \in 1..Len(names) |-> i])

\* ======================================================================
\* Stabilizer specification: guard_enforcer on an arbitrary scanned forest
\* ======================================================================
Attrs == [is_visible : BOOLEAN, is_solo : BOOLEAN]
HideFlags == [Nodes -> SUBSET {"HIDE"}]
NoCall == [start |-> None, new_state |-> FALSE]

GuardVarsOff ==
    /\ collections = <<>>
    /\ node_map = <<>>
    /\ old_packet = <<>>
    /\ change_log = <<>>
    /\ rounds = 0
    /\ phase = "off"
    /\ last_call = NoCall

LayoutVarsOff ==
    /\ node_names = <<>>
    /\ layout_rows = <<>>

SnapVarsOff ==
    /\ pose_bones = <<>>
    /\ keyframes = {}
    /\ snap_op = <<>>

PipeVarsOff ==
    /\ source = <<>>
    /\ ignore_skip = FALSE
    /\ scan_result = <<>>
    /\ packet = <<>>
    /\ snap_calls = <<>>
    /\ raw_name = <<>>
    /\ parsed = <<>>
    /\ pipe_phase = "off"

TickVarsOff ==
    /\ armatures = <<>>
    /\ arm_struct = <<>>
    /\ rrug_ui_data_cache = <<>>
    /\ entrance_gatekeeper_cache = <<>>
    /\ last_tick = "none"

InitGuard ==
    /\ LayoutVarsOff /\ TickVarsOff /\ PipeVarsOff
    /\ SnapVarsOff
    /\ collections \in [Nodes -> Attrs]
    /\ \E par \in PreorderForests, flags \in HideFlags :
           node_map = ScannedNodeMap(par, flags, collections)
    /\ old_packet \in {<<>>} \cup [Nodes -> Attrs]
    /\ change_log = [n \in Nodes |-> <<>>]
    /\ rounds = 0
    /\ phase = "enter"
    /\ last_call = NoCall

\* guard_enforcer up to the loop: the change log is computed once
EnterGuardEnforcer ==
    /\ phase = "enter"
    /\ change_log' = run_temporal_comparator(old_packet, node_map)
    /\ phase' = "loop"
    /\ UNCHANGED <<collections, node_map, old_packet, rounds, last_call>>
    /\ UNCHANGED <<lvars, tvars, pvars, ovars>>

\* one iteration of "for _ in range(max_iters)"
GuardRound ==
    /\ phase = "loop"
    /\ LET r == GuardRoundResult(collections, change_log, node_map)
       IN /\ collections' = r.colls
          /\ node_map' = r.nm
          /\ rounds' = rounds + 1
          /\ phase' = AfterRound(r.act, rounds + 1)
    /\ UNCHANGED <<old_packet, change_log, last_call>>
    /\ UNCHANGED <<lvars, tvars, pvars, ovars>>

NextGuard == EnterGuardEnforcer \/ GuardRound

SpecGuard == InitGuard /\ [][NextGuard]_vars

\* ======================================================================
\* Cascade specification: one direct call of _cascade_solo_state on a
\* cached node map whose backing collections may have vanished since
\* ======================================================================
InitCascade ==
    /\ LayoutVarsOff /\ TickVarsOff /\ PipeVarsOff
    /\ SnapVarsOff
    /\ \E present \in SUBSET Nodes : collections \in [present -> Attrs]
    /\ \E par \in PreorderForests, flags \in HideFlags, vis \in [Nodes -> BOOLEAN] :
           node_map = ScannedNodeMap(par, flags,
                         [n \in Nodes |->
                             [is_visible |-> vis[n],
                              is_solo |-> IF n \in DOMAIN collections
                                          THEN collections[n].is_solo ELSE FALSE]])
    /\ old_packet = <<>>
    /\ change_log = [n \in Nodes |-> <<>>]
    /\ rounds = 0
    /\ phase = "idle"
    /\ last_call = NoCall

CascadeSoloState(start, new_state) ==
    /\ phase = "idle"
    /\ LET r == cascade_solo_state(collections, node_map, start, new_state)
       IN /\ collections' = r.colls
          /\ node_map' = r.nm
    /\ last_call' = [start |-> start, new_state |-> new_state]
    /\ phase' = "cascaded"
    /\ UNCHANGED <<old_packet, change_log, rounds>>
    /\ UNCHANGED <<lvars, tvars, pvars, ovars>>

NextCascade == \E start \in Nodes, new_state \in BOOLEAN : CascadeSoloState(start, new_state)

SpecCascade == InitCascade /\ [][NextCascade]_vars

\* ======================================================================
\* Properties of the stabilizer (SpecGuard) and of the cascade (SpecCascade)
\* ======================================================================
Returned == phase \in {"fixpoint", "cap"}
ParentIn(n) == node_map[n].parent
HasHide(n) == "HIDE" \in node_map[n].active_flags
HiddenHide(n) == HasHide(n) /\ ~node_map[n].is_visible
RelevantKids(n) == {c \in DOMAIN node_map : ParentIn(c) = n /\ ~HiddenHide(c)}
LogRecords(n, key, val) ==
    \E i \in DOMAIN change_log[n] :
        change_log[n][i].property = key /\ change_log[n][i].to = val
ParentSoloed(n) == ParentIn(n) # None /\ node_map[ParentIn(n)].is_solo

\* C1: guard_enforcer runs at most 10 rounds and has returned once the
\* tenth round has run, whether or not that round still made a change.
C1_AtMostTenRounds ==
    /\ rounds <= 10
    /\ rounds = 10 => Returned
    /\ phase = "cap" => rounds = 10

\* C1 witness: the loop ran into the cap, round 10 having made a change
C1_CapReached == phase = "cap" /\ rounds = 10

\* C2: when the loop stops at a round that made no change, every node with
\* a relevant child satisfies both nesting rules (empty nest only unless the
\* change log records the node's own solo turning on).
C2_NestingAtFixpoint ==
    phase = "fixpoint" =>
        \A n \in DOMAIN node_map :
            RelevantKids(n) # {} =>
                /\ ~(/\ node_map[n].is_solo
                     /\ \A c \in RelevantKids(n) : ~node_map[c].is_solo
                     /\ ~LogRecords(n, "is_solo", TRUE))
                /\ ~(/\ ~node_map[n].is_solo
                     /\ \A c \in RelevantKids(n) : node_map[c].is_solo)

\* C2 witness: a fixpoint reached after a round that acted, on a tree where
\* some soloed node keeps an empty nest only thanks to the change log
C2_FixpointAfterRepair ==
    /\ phase = "fixpoint"
    /\ rounds >= 2
    /\ \E n \in DOMAIN node_map :
           /\ RelevantKids(n) # {}
           /\ node_map[n].is_solo
           /\ \A c \in RelevantKids(n) : ~node_map[c].is_solo

\* C3: after guard_enforcer returns (fixpoint or cap) no node is HIDE-flagged,
\* invisible, soloed and the child of a soloed parent, all at once.
C3_NoHiddenSoloUnderSolo ==
    Returned =>
        \A n \in DOMAIN node_map :
            ~(HiddenHide(n) /\ node_map[n].is_solo /\ ParentSoloed(n))

\* C3 witness: the loop returned at the cap with a hidden HIDE node under a
\* soloed parent
C3_HiddenUnderSoloAtCap ==
    /\ phase = "cap"
    /\ \E n \in DOMAIN node_map : HiddenHide(n) /\ ParentSoloed(n)

C6_NodeMapMirrorsTree ==
    Returned =>
        \A n \in DOMAIN node_map \cap DOMAIN collections :
            /\ node_map[n].is_solo = collections[n].is_solo
            /\ node_map[n].is_visible = collections[n].is_visible

\* C6 witness: guard_enforcer returned after the stabilizer changed a solo
\* value (a fixpoint that needed a repairing round)
C6_ReturnedAfterWrite == phase = "fixpoint" /\ rounds >= 2

\* ---- cascade
\* the state in which the nesting guard of the round about to run visits n:
\* the hide guard has run, and the nesting guard has visited the nodes before n
SoloGuardBefore(n) ==
    LET Step(st, name) == GuardSoloOne(change_log, st, name)
    IN FoldSeq(Step, guard_hide_state(collections, change_log, node_map),
               SelectSeq(Items(node_map), LAMBDA x : x < n))

\* n is soloed, has relevant children, and none of them is soloed
EmptyNest(nm, n) ==
    /\ nm[n].is_solo
    /\ \E c \in DOMAIN nm :
          nm[c].parent = n /\ ~("HIDE" \in nm[c].active_flags /\ ~nm[c].is_visible)
    /\ \A c \in DOMAIN nm :
          (nm[c].parent = n /\ ~("HIDE" \in nm[c].active_flags /\ ~nm[c].is_visible))
              => ~nm[c].is_solo

\* the empty-nest rule acts on n when the nesting guard visits it in state st
EmptyNestFires(st, n) ==
    /\ EmptyNest(st.nm, n)
    /\ GuardSoloOne(change_log, [st EXCEPT !.act = FALSE], n).act

\* C23: in a tick whose change log records that n's own solo changed to
\* true, the empty-nest rule fires on n in no round of the tick: before
\* every round the log still holds the record, and the round about to run
\* does not un-solo n by that rule.
C23_JustSoloedNotUndone ==
    phase = "loop" =>
        \A n \in DOMAIN node_map :
            LogRecords(n, "is_solo", TRUE) => ~EmptyNestFires(SoloGuardBefore(n), n)

\* C23 witness: a round after the first is about to visit a node whose solo
\* the log records as turned on, soloed and with no relevant child soloed
C23_SpareInLaterRound ==
    /\ phase = "loop"
    /\ rounds >= 1
    /\ \E n \in DOMAIN node_map :
          /\ LogRecords(n, "is_solo", TRUE)
          /\ EmptyNest(SoloGuardBefore(n).nm, n)

\* the state in which the hide guard of the round about to run visits n
HideGuardBefore(n) ==
    LET Step(st, name) == GuardHideOne(change_log, st, name)
    IN FoldSeq(Step, [colls |-> collections, nm |-> node_map, act |-> FALSE],
               SelectSeq(Items(node_map), LAMBDA x : x < n))

\* n has a parent and that parent is soloed in nm
UnderSoloedParent(nm, n) ==
    /\ nm[n].parent # None
    /\ nm[n].parent \in DOMAIN nm
    /\ nm[nm[n].parent].is_solo

\* C24: the hide guard acts on a HIDE-flagged node only when the node's
\* parent is soloed at that moment; a HIDE-flagged node whose parent is not
\* soloed, or that has no parent, is left as it is. Fails: the parent test
\* is made only for a node that has a parent, so a HIDE-flagged root is
\* acted on.
C24_HideGuardNeedsSoloedParent ==
    phase = "loop" =>
        \A n \in DOMAIN node_map :
            ("HIDE" \in node_map[n].active_flags
                 /\ ~UnderSoloedParent(HideGuardBefore(n).nm, n)) =>
            GuardHideOne(change_log, HideGuardBefore(n), n) = HideGuardBefore(n)

NodeParents == [n \in DOMAIN node_map |-> node_map[n].parent]
Subtree(s) == {d \in DOMAIN node_map : s \in AncestorsOrSelf(NodeParents, d)}
Backed(n) == n \in DOMAIN collections
CurrentlyInvisible(n) == Backed(n) /\ ~collections[n].is_visible
SoloedEverywhere(n, val) ==
    /\ node_map[n].is_solo = val
    /\ Backed(n) => collections[n].is_solo = val

\* C25: a cascade whose start id has no backing group writes nothing, neither
\* to the external tree nor to the node map; in a cascade whose start is
\* backed, a descendant whose backing group is missing keeps its node record
\* and the descendants that are backed are still given the cascaded value.
C25_MissingGroupsSkipped ==
    [][(phase = "idle" /\ phase' = "cascaded") =>
          LET s == last_call'.start IN
          IF ~Backed(s)
          THEN collections' = collections /\ node_map' = node_map
          ELSE /\ DOMAIN collections' = DOMAIN collections
               /\ \A d \in Subtree(s) :
                     IF Backed(d)
                     THEN /\ collections'[d].is_solo = node_map'[d].is_solo
                          /\ node_map'[d].is_solo =
                                 (last_call'.new_state
                                    /\ ~(HasHide(d) /\ CurrentlyInvisible(d)))
                     ELSE node_map'[d] = node_map[d]]_vars

\* C25 witness: a cascade of true from a backed start has passed over a
\* descendant without backing group and soloed a backed child of it
C25_SkippedAndWentOn ==
    /\ phase = "cascaded" /\ last_call.new_state
    /\ Backed(last_call.start)
    /\ \E d, e \in Subtree(last_call.start) \ {last_call.start} :
          /\ ~Backed(d) /\ ~node_map[d].is_solo
          /\ Backed(e) /\ node_map[e].parent = d
          /\ SoloedEverywhere(e, TRUE)

\* the visibility values of the external tree and of the node map
Visibilities(colls, nm) ==
    <<[n \in DOMAIN colls |-> colls[n].is_visible],
      [n \in DOMAIN nm |-> nm[n].is_visible]>>

\* a cascade from s with value v, run on the present state, keeps every
\* visibility and the solo value of every node outside the subtree of s
CascadeStaysInSubtree(s, v) ==
    LET r == cascade_solo_state(collections, node_map, s, v) IN
    /\ Visibilities(r.colls, r.nm) = Visibilities(collections, node_map)
    /\ \A n \in DOMAIN node_map \ Subtree(s) :
          /\ r.nm[n].is_solo = node_map[n].is_solo
          /\ Backed(n) => r.colls[n].is_solo = collections[n].is_solo

\* C30: no cascade changes the visibility of any node, in the external tree
\* or in the node map, and a single cascade started at S keeps the solo value
\* of every node that is neither S nor a descendant of S; no round of the
\* stabilization loop changes a visibility.
C30_CascadeKeepsVisibilityAndOutsiders ==
    [][/\ \A s \in DOMAIN node_map, v \in BOOLEAN : CascadeStaysInSubtree(s, v)
       /\ Visibilities(collections', node_map') = Visibilities(collections, node_map)]_vars

\* C30 witness: after an acting round there is a start whose cascade to
\* false would write, next to a soloed node outside its subtree, with
\* visible and hidden nodes present
C30_CascadeBesideOutsider ==
    /\ phase = "loop" /\ rounds >= 1
    /\ \E s, n \in DOMAIN node_map :
          /\ n \notin Subtree(s) /\ node_map[n].is_solo /\ ~node_map[n].is_visible
          /\ node_map[s].is_solo /\ node_map[s].is_visible
          /\ cascade_solo_state(collections, node_map, s, FALSE).nm # node_map

\* C26: a guard round that reports it acted has changed the solo value of
\* at least one node between its start and its end.
C26_ActedRoundChangesSolo ==
    [][(phase = "loop" /\ phase' \in {"loop", "cap"}) =>
          \E n \in DOMAIN node_map :
              \/ node_map'[n].is_solo # node_map[n].is_solo
              \/ collections'[n].is_solo # collections[n].is_solo]_vars

\* C5 as stated: cascade(start, true) leaves start and every descendant
\* soloed, except HIDE-flagged invisible descendants, which end un-soloed;
\* cascade(start, false) leaves start and every descendant un-soloed.
\* Stated here for the calls in which every backing group still exists.
C5_Original ==
    (phase = "cascaded" /\ \A d \in Subtree(last_call.start) : Backed(d)) =>
        LET s == last_call.start IN
        IF last_call.new_state
        THEN /\ node_map[s].is_solo
             /\ \A d \in Subtree(s) \ {s} :
                    node_map[d].is_solo = ~(HasHide(d) /\ CurrentlyInvisible(d))
        ELSE \A d \in Subtree(s) : ~node_map[d].is_solo

\* C5 amended: when the start node's backing group exists, cascade(start,
\* true) leaves every node among start and its descendants whose backing
\* group exists soloed, except that each of them, the start node included,
\* that is HIDE-flagged and currently invisible ends un-soloed;
\* cascade(start, false) leaves each of them un-soloed.
C5_CascadeResult ==
    (phase = "cascaded" /\ Backed(last_call.start)) =>
        \A d \in Subtree(last_call.start) :
            Backed(d) =>
                SoloedEverywhere(d,
                    last_call.new_state /\ ~(HasHide(d) /\ CurrentlyInvisible(d)))

\* C5 witness: a cascade of true over a start node with a hidden HIDE
\* descendant and a sibling of it that ends soloed
C5_CascadedOverHidden ==
    /\ phase = "cascaded"
    /\ last_call.new_state
    /\ Backed(last_call.start)
    /\ \E d, e \in Subtree(last_call.start) \ {last_call.start} :
           /\ d # e /\ Backed(d) /\ Backed(e)
           /\ ParentIn(d) = ParentIn(e)
           /\ HasHide(d) /\ CurrentlyInvisible(d) /\ ~node_map[d].is_solo
           /\ node_map[e].is_solo

\* ======================================================================
\* Row-grouping specification: one call of _helper_generate_clean_layout
\* on an ordered list of distinct sibling ids, any subset carrying JOIN
\* ======================================================================
\* the lists of at most k distinct ids of S, in every order
RECURSIVE DistinctSeqs(_, _)
DistinctSeqs(S, k) ==
    IF k = 0 THEN {<<>>}
    ELSE LET shorter == DistinctSeqs(S, k - 1)
             longer == UNION {{Append(q, x) : x \in S \ Range(q)} : q \in shorter}
         IN shorter \cup longer

\* sibling lists: short ones in every order, longer ones in declaration order
SiblingLists ==
    DistinctSeqs(Ids, MaxShuffled) \cup {[i \in 1..k |-> i] : k \in 0..MaxIds}

InitLayout ==
    /\ TickVarsOff /\ PipeVarsOff
    /\ SnapVarsOff
    /\ collections = <<>>
    /\ \E joined \in SUBSET Ids :
           node_map = [i \in Ids |->
                          [active_flags |-> IF i \in joined THEN {"JOIN"} ELSE {}]]
    /\ old_packet = <<>>
    /\ change_log = <<>>
    /\ rounds = 0
    /\ phase = "layout_in"
    /\ last_call = NoCall
    /\ node_names \in SiblingLists
    /\ layout_rows = <<>>

GenerateCleanLayout ==
    /\ phase = "layout_in"
    /\ layout_rows' = helper_generate_clean_layout(node_names, node_map)
    /\ phase' = "layout_done"
    /\ UNCHANGED <<collections, node_map, old_packet, change_log, rounds, last_call,
                   node_names, tvars, pvars, ovars>>

NextLayout == GenerateCleanLayout

SpecLayout == InitLayout /\ [][NextLayout]_vars

RECURSIVE Concat(_)
Concat(rows) == IF rows = <<>> THEN <<>> ELSE Head(rows) \o Concat(Tail(rows))
Joins(n) == "JOIN" \in node_map[n].active_flags

\* C10: the rows returned by _helper_generate_clean_layout concatenate to the
\* input list, every row is non-empty, every element of a row but its last
\* carries JOIN, and the last element of every row but the final one lacks it.
C10_RowGrouping ==
    phase = "layout_done" =>
        /\ Concat(layout_rows) = node_names
        /\ \A r \in DOMAIN layout_rows :
               /\ layout_rows[r] # <<>>
               /\ \A j \in 1..(Len(layout_rows[r]) - 1) : Joins(layout_rows[r][j])
               /\ r < Len(layout_rows) =>
                      ~Joins(layout_rows[r][Len(layout_rows[r])])

\* C10 witness: [A(join), B(join), C, D, E(join), F] gives [[A,B,C],[D],[E,F]]
C10_SpecExample ==
    /\ phase = "layout_done"
    /\ node_names = <<1, 2, 3, 4, 5, 6>>
    /\ {n \in DOMAIN node_map : Joins(n)} = {1, 2, 5}
    /\ layout_rows = <<<<1, 2, 3>>, <<4>>, <<5, 6>>>>

\* ======================================================================
\* Polling specification: rrug_ui_timer_update between external edits
\* ======================================================================
Put(f, k, v) == [x \in DOMAIN f \cup {k} |-> IF x = k THEN v ELSE f[x]]
Drop(f, K) == [x \in DOMAIN f \ K |-> f[x]]

\* the tuple compared against _entrance_gatekeeper_cache; no node of these
\* trees reaches MAX_UI_NESTING, so nm[name].get("overflow", False) is False
Fingerprint(nm) ==
    LET order == Items(nm)
    IN [i \in DOMAIN order |->
           <<order[i], nm[order[i]].is_visible, nm[order[i]].is_solo,
             nm[order[i]].parent, FALSE>>]

is_ui_visible(nm, node_id) ==
    /\ node_id \in DOMAIN nm
    /\ ~("HIDE" \in nm[node_id].active_flags /\ ~nm[node_id].is_visible)
    /\ "SKIP" \notin nm[node_id].active_flags

ValidChildren(nm, node_id) ==
    SelectSeq(nm[node_id].children, LAMBDA c : is_ui_visible(nm, c))

RootNames(nm) == SelectSeq(Items(nm), LAMBDA n : nm[n].parent = None)

\* lines 552-558: the shown children of the roots of one category
RawOf(nm, zone) ==
    LET Add(acc, r_name) ==
            IF ZoneOfName(nm[r_name].active_flags) = zone
            THEN acc \o ValidChildren(nm, r_name) ELSE acc
    IN FoldSeq(Add, <<>>, RootNames(nm))

RawVis(nm) == RawOf(nm, "VIS")
RawProps(nm) == RawOf(nm, "PROP")
RawSnaps(nm) == RawOf(nm, "SNAP")

\* variant: the scan advances one position after a pair
RECURSIVE SnapPairsOverlapping(_, _, _)
SnapPairsOverlapping(nm, children, i) ==
    IF i > Len(children) THEN <<>>
    ELSE IF /\ children[i] \in DOMAIN nm
            /\ "TO" \in nm[children[i]].active_flags
            /\ i + 1 <= Len(children)
         THEN <<<<children[i], children[i + 1]>>>>
                  \o SnapPairsOverlapping(nm, children, i + 1)
         ELSE SnapPairsOverlapping(nm, children, i + 1)

\* lines 571-581: the pairs formed from index i on
RECURSIVE SnapPairs(_, _, _)
SnapPairs(nm, children, i) ==
    IF i > Len(children) THEN <<>>
    ELSE IF /\ children[i] \in DOMAIN nm
            /\ "TO" \in nm[children[i]].active_flags
            /\ i + 1 <= Len(children)
         THEN <<<<children[i], children[i + 1]>>>> \o SnapPairs(nm, children, i + 2)
         ELSE SnapPairs(nm, children, i + 1)

\* process_snap_group on st = [nm, snap_groups, calls]; calls lists the
\* groups it was called on
RECURSIVE process_snap_group(_, _)
RECURSIVE ProcessSnapList(_, _)

\* lines 583-585
RegisterSnapGroup(st, group_id, pair_list) ==
    [st EXCEPT !.snap_groups = Put(@, group_id, pair_list),
               !.nm[group_id].is_snap_group = TRUE]

\* lines 582-590
SnapGroupBody(st, group_id, pair_list, valid_snap_children) ==
    IF pair_list # <<>> THEN RegisterSnapGroup(st, group_id, pair_list)
    ELSE ProcessSnapList(
             [st EXCEPT !.nm[group_id].ui_layout =
                 helper_generate_clean_layout(valid_snap_children, st.nm)],
             valid_snap_children)

process_snap_group(st, group_id) ==
    IF group_id \notin DOMAIN st.nm THEN [st EXCEPT !.calls = Append(@, group_id)]
    ELSE SnapGroupBody([st EXCEPT !.calls = Append(@, group_id)], group_id,
                       SnapPairs(st.nm, st.nm[group_id].children, 1),
                       ValidChildren(st.nm, group_id))

ProcessSnapList(st, ids) ==
    IF ids = <<>> THEN st
    ELSE ProcessSnapList(process_snap_group(st, Head(ids)), Tail(ids))

\* lines 599-602: the shown children of the node's own tree_type
SameTypeChildren(nm, node_id) ==
    SelectSeq(nm[node_id].children,
              LAMBDA c : /\ c \in DOMAIN nm
                         /\ nm[c].tree_type = nm[node_id].tree_type
                         /\ is_ui_visible(nm, c))

\* prepare_recursive, lines 596-608
RECURSIVE PrepareRecursive(_, _)
RECURSIVE PrepareList(_, _)

PrepareNode(nm, node_id, valid_children) ==
    PrepareList(
        [(IF nm[node_id].tree_type = "PROP"
          THEN helper_resolve_links(valid_children, nm) ELSE nm)
            EXCEPT ![node_id].ui_layout =
                helper_generate_clean_layout(valid_children, nm)],
        valid_children)

PrepareRecursive(nm, node_id) ==
    PrepareNode(nm, node_id, SameTypeChildren(nm, node_id))

PrepareList(nm, ids) ==
    IF ids = <<>> THEN nm
    ELSE PrepareList(PrepareRecursive(nm, Head(ids)), Tail(ids))

\* lines 563-594: the link pass over raw_props, then the snap pass
SnapPass(nm) ==
    ProcessSnapList([nm |-> helper_resolve_links(RawProps(nm), nm),
                     snap_groups |-> <<>>, calls |-> <<>>],
                    SelectSeq(RawSnaps(nm), LAMBDA s : is_ui_visible(nm, s)))

\* lines 612-616 on the finished node map
FinalPacket(nm, snapped, final_nm) ==
    [node_map       |-> final_nm,
     vis_display    |-> helper_generate_clean_layout(RawVis(nm), nm),
     props_others   |-> helper_generate_clean_layout(RawProps(nm), nm),
     snap_layout    |-> helper_generate_clean_layout(RawSnaps(nm), nm),
     snap_groups    |-> snapped.snap_groups,
     has_links      |-> \E n \in DOMAIN final_nm : final_nm[n].link_meta # NoLink,
     found_settings |-> RawProps(nm) # <<>>]

PacketAfterSnapPass(nm, snapped) ==
    FinalPacket(nm, snapped,
                PrepareList(snapped.nm, RawVis(nm) \o RawProps(nm) \o RawSnaps(nm)))

\* the packet stored in _rrug_ui_data_cache
run_ui_data_preparation(nm) == PacketAfterSnapPass(nm, SnapPass(nm))

\* lines 773-776: drop the entries of armatures that no longer exist
PurgeDead(live_keys, data, gate) ==
    LET dead == {key \in DOMAIN data : key \notin live_keys}
    IN [data |-> Drop(data, dead), gate |-> Drop(gate, dead)]

\* where a stage of the pipeline may raise
Stages == {"none", "scan", "parse", "stabilize", "compile"}

\* variant: the fingerprint is compared without the solo column
SameFingerprintNoSolo(gate, arm_key, current_state) ==
    /\ arm_key \in DOMAIN gate
    /\ Len(gate[arm_key]) = Len(current_state)
    /\ \A i \in DOMAIN current_state :
           /\ gate[arm_key][i][1] = current_state[i][1]
           /\ gate[arm_key][i][2] = current_state[i][2]
           /\ gate[arm_key][i][4] = current_state[i][4]

\* current_state == cached_state (cached_state is None without an entry)
SameFingerprintNever(gate, arm_key, current_state) == FALSE

SameFingerprint(gate, arm_key, current_state) ==
    arm_key \in DOMAIN gate /\ gate[arm_key] = current_state

\* rrug_ui_timer_update with `active` the armature of the active object (or
\* None) and `fail` the stage that raises: [arms, data, gate, outcome]
TickOut(a, d, g, o) == [arms |-> a, data |-> d, gate |-> g, outcome |-> o]

\* lines 800-811, entered when the fingerprint differs from the cached one;
\* `stabilized` is guard_enforcer's result on the scan, read only by the stages
\* that come after it
run_pipeline(active, fail, arms, raw, stabilized, data, gate, current_state) ==
    LET gate2 == Put(gate, active, current_state)
        old_map == IF active \in DOMAIN data THEN data[active].node_map ELSE <<>>
    IN IF fail = "parse" THEN TickOut(arms, data, gate2, "pipeline_failed")
       ELSE IF fail = "stabilize"
       THEN LET log == run_temporal_comparator(old_map, raw)
                first_pass == guard_hide_state(arms[active], log, raw)
            IN TickOut(Put(arms, active, first_pass.colls), data, gate2,
                       "pipeline_failed")
       ELSE LET arms2 == Put(arms, active, stabilized.colls)
            IN IF fail = "compile"
               THEN TickOut(arms2, data, gate2, "pipeline_failed")
               ELSE TickOut(arms2,
                            Put(data, active, run_ui_data_preparation(stabilized.nm)),
                            gate2, "stored")

timer_update(active, fail, arms, raw, stabilized, data, gate) ==
    LET gc == PurgeDead(DOMAIN arms, data, gate)
    IN IF active = None THEN TickOut(arms, gc.data, gc.gate, "idle")
       ELSE IF fail = "scan" THEN TickOut(arms, gc.data, gc.gate, "scan_failed")
       ELSE
       LET current_state == Fingerprint(raw)
       IN IF SameFingerprint(gc.gate, active, current_state)
          THEN TickOut(arms, gc.data, gc.gate, "skipped")
          ELSE run_pipeline(active, fail, arms, raw, stabilized, gc.data, gc.gate,
                            current_state)

\* ---- the trees of the polling specification: a (DISPLAYS) root and a chain
\* of descendants below it, each descendant with or without HIDE
ChainParents == [n \in TickNodes |-> n - 1]

TickStructs ==
    {[par |-> ChainParents,
      flags |-> [n \in TickNodes |->
                    IF ChainParents[n] = None THEN {"DISPLAYS"} ELSE h[n]]] :
        h \in [TickNodes -> SUBSET {"HIDE"}]}

NewCollections == [n \in TickNodes |-> [is_visible |-> TRUE, is_solo |-> FALSE]]

Init ==
    /\ GuardVarsOff /\ LayoutVarsOff /\ PipeVarsOff
    /\ SnapVarsOff
    /\ armatures = <<>>
    /\ arm_struct \in [Arms -> TickStructs]
    /\ rrug_ui_data_cache = <<>>
    /\ entrance_gatekeeper_cache = <<>>
    /\ last_tick = "none"

\* an armature with this identity appears in bpy.data.armatures
CreateArmature(a) ==
    /\ a \notin DOMAIN armatures
    /\ armatures' = Put(armatures, a, NewCollections)
    /\ UNCHANGED <<arm_struct, rrug_ui_data_cache, entrance_gatekeeper_cache,
                   last_tick, gvars, lvars, pvars, ovars>>

DeleteArmature(a) ==
    /\ a \in DOMAIN armatures
    /\ armatures' = Drop(armatures, {a})
    /\ UNCHANGED <<arm_struct, rrug_ui_data_cache, entrance_gatekeeper_cache,
                   last_tick, gvars, lvars, pvars, ovars>>

\* another actor flips one attribute of one collection
SetVisible(a, n) ==
    /\ a \in DOMAIN armatures
    /\ armatures' = [armatures EXCEPT ![a][n].is_visible = ~@]
    /\ UNCHANGED <<arm_struct, rrug_ui_data_cache, entrance_gatekeeper_cache,
                   last_tick, gvars, lvars, pvars, ovars>>

SetSolo(a, n) ==
    /\ a \in DOMAIN armatures
    /\ armatures' = [armatures EXCEPT ![a][n].is_solo = ~@]
    /\ UNCHANGED <<arm_struct, rrug_ui_data_cache, entrance_gatekeeper_cache,
                   last_tick, gvars, lvars, pvars, ovars>>

\* purge_rrug_cache (load handler, unregister)
PurgeCache ==
    /\ rrug_ui_data_cache' = <<>>
    /\ entrance_gatekeeper_cache' = <<>>
    /\ UNCHANGED <<armatures, arm_struct, last_tick, gvars, lvars, pvars, ovars>>

\* run_structure_scanner on the armature of the active object
ScanOf(active) ==
    IF active = None THEN <<>>
    ELSE ScannedNodeMap(arm_struct[active].par, arm_struct[active].flags,
                        armatures[active])

\* what guard_enforcer makes of that scan against the cached packet
StabilizedOf(active, raw) ==
    guard_enforcer(armatures[active],
                   IF active \in DOMAIN rrug_ui_data_cache
                   THEN rrug_ui_data_cache[active].node_map ELSE <<>>,
                   raw)

\* a stage can only raise if the tick runs it
TickEnabled(active, fail, raw) ==
    /\ active = None \/ active \in DOMAIN armatures
    /\ fail # "none" => active # None
    /\ fail \in {"parse", "stabilize", "compile"} =>
           ~SameFingerprint(entrance_gatekeeper_cache, active, Fingerprint(raw))

\* one run of rrug_ui_timer_update
Tick(active) ==
    /\ active = None \/ active \in DOMAIN armatures
    /\ LET raw == ScanOf(active)
           stabilized == StabilizedOf(active, raw)
       IN \E fail \in Stages :
             /\ TickEnabled(active, fail, raw)
             /\ \E r \in {timer_update(active, fail, armatures, raw, stabilized,
                                      rrug_ui_data_cache, entrance_gatekeeper_cache)} :
                   /\ armatures' = r.arms
                   /\ rrug_ui_data_cache' = r.data
                   /\ entrance_gatekeeper_cache' = r.gate
                   /\ last_tick' = r.outcome
    /\ UNCHANGED <<arm_struct, gvars, lvars, pvars, ovars>>

Next ==
    \/ \E a \in Arms : CreateArmature(a)
    \/ \E a \in Arms : DeleteArmature(a)
    \/ \E a \in Arms, n \in TickNodes : SetVisible(a, n)
    \/ \E a \in Arms, n \in TickNodes : SetSolo(a, n)
    \/ PurgeCache
    \/ \E active \in {None} \cup Arms : Tick(active)

Spec == Init /\ [][Next]_vars

\* ---- claims about the polling tick ----------------------------------------

\* the entry of a store for one identity: <<value>> if present, <<>> if not
Entry(store, arm_key) == IF arm_key \in DOMAIN store THEN <<store[arm_key]>> ELSE <<>>

\* the tick that would run now on `active` with `fail` raising
TickCan(active, fail) == TickEnabled(active, fail, ScanOf(active))

TickResult(active, fail) ==
    LET raw == ScanOf(active)
    IN timer_update(active, fail, armatures, raw, StabilizedOf(active, raw),
                    rrug_ui_data_cache, entrance_gatekeeper_cache)

\* the tick that follows a tick with result r1 on the same identity, the tree
\* being what it was when that tick started
SecondTick(a, r1) ==
    LET raw == ScanOf(a)
        old_map == IF a \in DOMAIN r1.data THEN r1.data[a].node_map ELSE <<>>
    IN timer_update(a, "none", armatures, raw,
                    guard_enforcer(armatures[a], old_map, raw), r1.data, r1.gate)

\* the second tick finds its fingerprint stored, runs no stage, writes nothing
ShortCircuits(a, r1) ==
    LET r2 == SecondTick(a, r1)
    IN /\ Entry(r1.gate, a) = <<Fingerprint(ScanOf(a))>>
       /\ r2.outcome = "skipped"
       /\ Entry(r2.data, a) = Entry(r1.data, a)
       /\ r2.gate = r1.gate
       /\ r2.arms = armatures

C8_FailedTickIsNoOp ==
    \A a \in Arms, fail \in Stages \ {"none"} :
        (a \in DOMAIN armatures /\ TickCan(a, fail)) =>
        LET r == TickResult(a, fail)
        IN /\ Entry(r.data, a) = Entry(rrug_ui_data_cache, a)
           /\ Entry(r.gate, a) = Entry(entrance_gatekeeper_cache, a)

\* C9 as stated: after every tick neither store holds an entry keyed by an
\* identity outside the live-identity set of that tick.
C9_NoDeadEntriesAfterTick ==
    \A active \in {None} \cup Arms, fail \in Stages :
        TickCan(active, fail) =>
        LET r == TickResult(active, fail)
        IN (DOMAIN r.data \cup DOMAIN r.gate) \subseteq DOMAIN armatures

\* the fingerprint a scan takes of armature a when its collections are colls
FingerprintOfTree(a, colls) ==
    Fingerprint(ScannedNodeMap(arm_struct[a].par, arm_struct[a].flags, colls))

\* C28: after a tick that ran the whole pipeline, the fingerprint stored for
\* the tree is the fingerprint of the external tree as that tick leaves it,
\* solo values written by stabilization included. Fails: the fingerprint is
\* taken from the scan and stored before stabilization writes.
C28_StoredFingerprintIsFinal ==
    \A a \in Arms :
        (TickCan(a, "none") /\ TickResult(a, "none").outcome = "stored") =>
        TickResult(a, "none").gate[a] =
            FingerprintOfTree(a, TickResult(a, "none").arms[a])

\* ---- the polling specification with the timer's rescheduling: the timer
\* function returns its next delay from every path (lines 779, 780, 816), so a
\* tick on the active armature keeps being run; no stage raises
TickNoRaise(active) ==
    /\ active \in DOMAIN armatures
    /\ LET raw == ScanOf(active)
       IN \E r \in {timer_update(active, "none", armatures, raw,
                                 StabilizedOf(active, raw),
                                 rrug_ui_data_cache, entrance_gatekeeper_cache)} :
             /\ armatures' = r.arms
             /\ rrug_ui_data_cache' = r.data
             /\ entrance_gatekeeper_cache' = r.gate
             /\ last_tick' = r.outcome
    /\ UNCHANGED <<arm_struct, gvars, lvars, pvars, ovars>>

\* an edit by an actor other than the timer
ExternalEdit ==
    \/ \E a \in Arms : CreateArmature(a)
    \/ \E a \in Arms : DeleteArmature(a)
    \/ \E a \in Arms, n \in TickNodes : SetVisible(a, n)
    \/ \E a \in Arms, n \in TickNodes : SetSolo(a, n)
    \/ PurgeCache

TimerTick == \E active \in Arms : TickNoRaise(active)

\* update_and_get_master_tree_data: the node map of the cached packet, or of
\* the default packet, which has none
MasterNodeMap(a) ==
    IF a \in DOMAIN rrug_ui_data_cache THEN rrug_ui_data_cache[a].node_map ELSE <<>>

\* RRUG_OT_solo_toggle.execute on collection n of the active armature a: the
\* cascade writes the tree and the node records of the cached packet
SoloToggle(a, n) ==
    /\ a \in DOMAIN armatures
    /\ \E r \in {cascade_solo_state(armatures[a], MasterNodeMap(a), n,
                                    ~armatures[a][n].is_solo)} :
          /\ armatures' = [armatures EXCEPT ![a] = r.colls]
          /\ rrug_ui_data_cache' =
                 IF a \in DOMAIN rrug_ui_data_cache
                 THEN [rrug_ui_data_cache EXCEPT ![a].node_map = r.nm]
                 ELSE rrug_ui_data_cache
    /\ UNCHANGED <<arm_struct, entrance_gatekeeper_cache, last_tick,
                   gvars, lvars, pvars, ovars>>

UserToggle == \E a \in Arms, n \in TickNodes : SoloToggle(a, n)

NextPolling == ExternalEdit \/ UserToggle \/ TimerTick

\* some tick would change the state: ENABLED <<TimerTick>>_vars, written out
TickPending ==
    \E a \in DOMAIN armatures :
        LET r == TickResult(a, "none")
        IN \/ r.arms # armatures
           \/ r.data # rrug_ui_data_cache
           \/ r.gate # entrance_gatekeeper_cache
           \/ r.outcome # last_tick

\* weak fairness of the timer, WF_vars(TimerTick), with its enabling condition
\* written as the state predicate TickPending
TimerKeepsRunning == []<>~TickPending \/ []<><<TimerTick>>_vars

SpecPolling == Init /\ [][NextPolling]_vars /\ TimerKeepsRunning

\* a tick on any live armature would find its fingerprint stored and skip
Quiescent ==
    \A a \in DOMAIN armatures :
        LET r == TickResult(a, "none")
        IN /\ r.outcome = "skipped"
           /\ r.arms = armatures

Toggled(a, n) ==
    LET r == cascade_solo_state(armatures[a], MasterNodeMap(a), n,
                                ~armatures[a][n].is_solo)
    IN [arms |-> [armatures EXCEPT ![a] = r.colls],
        data |-> IF a \in DOMAIN rrug_ui_data_cache
                 THEN [rrug_ui_data_cache EXCEPT ![a].node_map = r.nm]
                 ELSE rrug_ui_data_cache]

\* the tick on a that runs from tree and layout store t, no stage raising
TickFrom(a, t) ==
    LET raw == ScannedNodeMap(arm_struct[a].par, arm_struct[a].flags, t.arms[a])
        old_map == IF a \in DOMAIN t.data THEN t.data[a].node_map ELSE <<>>
    IN timer_update(a, "none", t.arms, raw,
                    guard_enforcer(t.arms[a], old_map, raw),
                    t.data, entrance_gatekeeper_cache)

\* the tick that comes right after SoloToggle(a, n)
TickAfterToggle(a, n) == TickFrom(a, Toggled(a, n))

\* C29: after the solo toggle has turned solo on for a visible node N, the
\* tick that comes next, nothing else being edited, leaves N soloed, whatever
\* the caches hold, also when no layout is cached for the tree. Fails without
\* a cached layout: the cascade then reaches N alone, the change log is empty
\* and the empty-nest rule un-soloes N.
C29_ToggledOnSurvivesTick ==
    \A a \in DOMAIN armatures, n \in TickNodes :
        (armatures[a][n].is_visible /\ ~armatures[a][n].is_solo) =>
        TickAfterToggle(a, n).arms[a][n].is_solo


\* ======================================================================
\* Link specification: one call of _helper_resolve_links on a sibling list
\* ======================================================================
MaxLinkIds == 4
LinkIds == 1..MaxLinkIds

InitLinks ==
    /\ TickVarsOff /\ PipeVarsOff
    /\ SnapVarsOff
    /\ collections = <<>>
    /\ \E present \in SUBSET LinkIds, linked \in SUBSET LinkIds :
           node_map = [i \in present |->
                          [active_flags |-> IF i \in linked THEN {"LINK"} ELSE {},
                           link_meta |-> NoLink]]
    /\ old_packet = <<>>
    /\ change_log = <<>>
    /\ rounds = 0
    /\ phase = "links_in"
    /\ last_call = NoCall
    /\ node_names \in DistinctSeqs(LinkIds, MaxLinkIds)
    /\ layout_rows = <<>>

ResolveLinks ==
    /\ phase = "links_in"
    /\ node_map' = helper_resolve_links(node_names, node_map)
    /\ phase' = "links_done"
    /\ UNCHANGED <<collections, old_packet, change_log, rounds, last_call,
                   lvars, tvars, pvars, ovars>>

NextLinks == ResolveLinks

SpecLinks == InitLinks /\ [][NextLinks]_vars

IsSource(nm, n) == nm[n].link_meta # NoLink /\ nm[n].link_meta[1].is_source
IsTarget(nm, n) == nm[n].link_meta # NoLink /\ ~nm[n].link_meta[1].is_source
PartnerOf(nm, n) == nm[n].link_meta[1].partner

\* C11 as stated: after the pass over a list of three eligible siblings that
\* all carry LINK, the first is the source of the second, the second the
\* target of the first and the third has no link; and after any pass no node
\* that a source names as its partner is itself a source.
C11_NonOverlappingLinks ==
    phase = "links_done" =>
        /\ (/\ Len(node_names) = 3
            /\ \A i \in 1..3 : /\ node_names[i] \in DOMAIN node_map
                                /\ "LINK" \in node_map[node_names[i]].active_flags) =>
               /\ node_map[node_names[1]].link_meta = LinkMeta(node_names[2], TRUE)
               /\ node_map[node_names[2]].link_meta = LinkMeta(node_names[1], FALSE)
               /\ node_map[node_names[3]].link_meta = NoLink
        /\ \A n \in DOMAIN node_map, t \in DOMAIN node_map :
               (IsSource(node_map, n) /\ PartnerOf(node_map, n) = t) =>
               ~IsSource(node_map, t)


\* ======================================================================
\* Preparation specification: run_ui_data_preparation on one scanned tree
\* ======================================================================
MaxPrepNodes == 5    \* collections of the tree handed to run_ui_data_preparation
PrepNodes == 1..MaxPrepNodes

\* what a collection below a root carries: nothing, LINK, TO, or HIDE while hidden
PrepKinds == {"plain", "link", "to", "hidden"}
\* the zone markers of the roots that line 555-557 sort into the raw lists
PrepRootMarks == {"DISPLAYS", "SETTINGS", "SNAPS"}

PrepFlagsOf(kind) ==
    IF kind = "link" THEN {"LINK"}
    ELSE IF kind = "to" THEN {"TO"}
    ELSE IF kind = "hidden" THEN {"HIDE"}
    ELSE IF kind = "plain" THEN {}
    ELSE {kind}

PrepNodeMap(par, kinds) ==
    ScannedNodeMap(par,
                   [n \in DOMAIN par |-> PrepFlagsOf(kinds[n])],
                   [n \in DOMAIN par |->
                       [is_visible |-> kinds[n] # "hidden", is_solo |-> FALSE]])

\* roots carry a zone marker, the collections below them one of the kinds
PrepKindsOver(par) ==
    {[n \in DOMAIN par |-> IF par[n] = None THEN rk[n] ELSE nk[n]] :
        rk \in [{n \in DOMAIN par : par[n] = None} -> PrepRootMarks],
        nk \in [{n \in DOMAIN par : par[n] # None} -> PrepKinds]}

InitPrepare ==
    /\ GuardVarsOff
    /\ LayoutVarsOff
    /\ TickVarsOff
    /\ SnapVarsOff
    /\ source = <<>>
    /\ ignore_skip = FALSE
    /\ \E par \in ForestsOver(PrepNodes) :
          \E kinds \in PrepKindsOver(par) :
              scan_result = [node_map |-> PrepNodeMap(par, kinds)]
    /\ packet = <<>>
    /\ snap_calls = <<>>
    /\ raw_name = <<>>
    /\ parsed = <<>>
    /\ pipe_phase = "stabilized"

\* line 808: data = run_ui_data_preparation(stabilized_res); snap_calls records
\* the nodes process_snap_group ran on, in call order
RunUiDataPreparation ==
    /\ pipe_phase = "stabilized"
    /\ packet' = run_ui_data_preparation(scan_result.node_map)
    /\ snap_calls' = SnapPass(scan_result.node_map).calls
    /\ pipe_phase' = "prepared"
    /\ UNCHANGED <<gvars, lvars, tvars, source, ignore_skip, scan_result, raw_name, parsed, ovars>>

NextPrepare == RunUiDataPreparation

SpecPrepare == InitPrepare /\ [][NextPrepare]_vars

Prepared == pipe_phase = "prepared"
LinkOf(n) == packet.node_map[n].link_meta[1]
Linked(n) == packet.node_map[n].link_meta # NoLink

\* C12: after layout compilation, whenever a node's link names a partner, the
\* partner's link names the node back, and exactly one of the two is the
\* source. Fails: three consecutive LINK siblings leave the first pointing at
\* a second that points at the third.
C12_LinkSymmetry ==
    Prepared =>
        \A n \in DOMAIN packet.node_map :
            Linked(n) =>
                /\ LinkOf(n).partner \in DOMAIN packet.node_map
                /\ Linked(LinkOf(n).partner)
                /\ LinkOf(LinkOf(n).partner).partner = n
                /\ LinkOf(LinkOf(n).partner).is_source # LinkOf(n).is_source

\* ---- snap groups
HasTo(c) == c \in DOMAIN scan_result.node_map
             /\ "TO" \in scan_result.node_map[c].active_flags

\* the positions of a child list where the left-to-right scan forms a pair:
\* a TO child with a following sibling, unless the scan jumped over it
PairStarts(children) ==
    CHOOSE S \in SUBSET (DOMAIN children) :
        \A i \in DOMAIN children :
            i \in S <=> /\ HasTo(children[i])
                        /\ i < Len(children)
                        /\ (i = 1 \/ (i - 1) \notin S)

ExpectedPairs(children) ==
    LET starts == SortedSeq(PairStarts(children))
    IN [k \in DOMAIN starts |-> <<children[starts[k]], children[starts[k] + 1]>>]

ChildrenIn(g) == scan_result.node_map[g].children
Called(g) == g \in Range(snap_calls)
ShownSnapRoots ==
    {c \in DOMAIN scan_result.node_map :
        /\ scan_result.node_map[c].parent # None
        /\ "SNAPS" \in scan_result.node_map[scan_result.node_map[c].parent].active_flags
        /\ scan_result.node_map[scan_result.node_map[c].parent].parent = None
        /\ is_ui_visible(scan_result.node_map, c)}

\* C17: for every group the snap pass ran on, the stored pairs are the ones
\* of the left-to-right scan (a TO child with a following sibling pairs with
\* it and the scan jumps two, otherwise one); the group is is_snap_group and
\* in snap_groups exactly when there is a pair; and the pass runs on a child
\* exactly when its group was run on, formed no pair, and the child is shown.
C17_SnapPairing ==
    Prepared =>
        /\ \A g \in DOMAIN packet.node_map :
              /\ packet.node_map[g].is_snap_group <=> g \in DOMAIN packet.snap_groups
              /\ g \in DOMAIN packet.snap_groups => Called(g)
              /\ Called(g) =>
                    /\ (g \in DOMAIN packet.snap_groups)
                           <=> ExpectedPairs(ChildrenIn(g)) # <<>>
                    /\ g \in DOMAIN packet.snap_groups =>
                           packet.snap_groups[g] = ExpectedPairs(ChildrenIn(g))
              /\ Called(g) <=>
                    \/ g \in ShownSnapRoots
                    \/ /\ scan_result.node_map[g].parent # None
                       /\ Called(scan_result.node_map[g].parent)
                       /\ ExpectedPairs(ChildrenIn(scan_result.node_map[g].parent)) = <<>>
                       /\ is_ui_visible(scan_result.node_map, g)
        /\ \A i, j \in DOMAIN snap_calls : snap_calls[i] = snap_calls[j] => i = j

\* C17 witness: a group with children TO, TO, plain pairs the first two only,
\* and a pair-less group above it was descended into
C17_JumpsOverTarget ==
    /\ Prepared
    /\ \E g \in DOMAIN packet.snap_groups :
          /\ Len(ChildrenIn(g)) = 3
          /\ \A i \in 1..2 : HasTo(ChildrenIn(g)[i])
          /\ ~HasTo(ChildrenIn(g)[3])
          /\ packet.snap_groups[g] = <<<<ChildrenIn(g)[1], ChildrenIn(g)[2]>>>>
          /\ packet.node_map[g].is_snap_group

\* C18: after run_ui_data_preparation no node is both is_snap_group and the
\* owner of a non-empty ui_layout. Fails: prepare_recursive runs on the snap
\* branches too and lays out the shown children of a paired group.
C18_SnapGroupHasNoLayout ==
    Prepared =>
        \A n \in DOMAIN packet.node_map :
            ~(packet.node_map[n].is_snap_group /\ packet.node_map[n].ui_layout # <<>>)

\* ======================================================================
\* Scanner specification: run_structure_scanner on an external tree
\* ======================================================================
MAX_UI_NESTING == 8     \* line 39
MaxSrcNodes == 3        \* collections of the forests tried in every shape
MaxChain == 10          \* longest single chain of collections
MaxKidsInCycle == 2     \* children per collection of the sources with cyclic links
MaxScanDoublings == 14  \* the scanner's loop is followed for 2^14 iterations

Reversed(s) == [i \in 1..Len(s) |-> s[Len(s) + 1 - i]]

StackEntry(coll, parent_id, depth, tree_ctx) ==
    [coll |-> coll, parent_id |-> parent_id, depth |-> depth, tree_ctx |-> tree_ctx]

\* lines 347-355: the roots are pushed in reverse declaration order
InitialStack(src) ==
    LET Entry0(c) == StackEntry(c, None, 0, ZoneOfName(src.marks[c]))
        rev == Reversed(src.roots)
    IN [i \in 1..Len(rev) |-> Entry0(rev[i])]

\* variant: the children are pushed in declaration order
PushedChildrenForward(src, e, ctx) ==
    [i \in 1..Len(src.children[e.coll]) |->
        StackEntry(src.children[e.coll][i], e.coll, e.depth + 1, ctx)]

\* lines 394-395: the children are pushed in reverse declaration order
PushedChildren(src, e, ctx) ==
    [i \in 1..Len(src.children[e.coll]) |->
        StackEntry(Reversed(src.children[e.coll])[i], e.coll, e.depth + 1, ctx)]

\* variant: a node past the cap is flagged without looking at its children
OverflowAtNoChildTest(src, e) == e.depth >= MAX_UI_NESTING

\* lines 393-398: the node is flagged when it is not expanded and has children
OverflowAt(src, e) ==
    e.depth >= MAX_UI_NESTING /\ Len(src.children[e.coll]) > 0

\* variant: the skip marker is ignored
StopsDescentNever(src, no_skip, e, ctx) == FALSE

\* lines 390-391
StopsDescent(src, no_skip, e, ctx) ==
    ~no_skip /\ (src.skip[e.coll] \/ ctx = "INTERNAL")

\* lines 362-366: the name is looked at only when no zone was inherited
ZoneAt(src, e) ==
    IF e.tree_ctx = "NONE" THEN ZoneOfName(src.marks[e.coll]) ELSE e.tree_ctx

\* lines 383-388 on the popped entry e with its node record
Register(st, e, node) ==
    LET nm1 == Put(st.node_map, e.coll, node)
    IN IF e.parent_id # None
       THEN [st EXCEPT !.node_map =
                IF e.parent_id \in DOMAIN nm1
                THEN [nm1 EXCEPT ![e.parent_id].children = Append(@, e.coll)]
                ELSE nm1]
       ELSE [st EXCEPT !.node_map = nm1,
                       !.root_collection_names = Append(@, e.coll)]

\* one iteration of the while loop of lines 357-398 on the popped entry e
ScanVisit(src, no_skip, st, e, ctx) ==
    LET stop == StopsDescent(src, no_skip, e, ctx)
        node == [parent |-> e.parent_id, children |-> <<>>, tree_type |-> ctx,
                 overflow |-> ~stop /\ OverflowAt(src, e)]
        popped == [st EXCEPT !.stack = SubSeq(@, 1, Len(@) - 1),
                             !.traversal_order = Append(@, e.coll),
                             !.steps = @ + 1]
        reg == Register(popped, e, node)
    IN IF ~stop /\ e.depth < MAX_UI_NESTING
       THEN [reg EXCEPT !.stack = @ \o PushedChildren(src, e, ctx)]
       ELSE reg

ScanStep(src, no_skip, st) ==
    ScanVisit(src, no_skip, st, st.stack[Len(st.stack)],
              ZoneAt(src, st.stack[Len(st.stack)]))

\* the while loop of line 357, run for at most 2^k iterations: the first half
\* of the iterations, then the second half on what the first left
RECURSIVE ScanLoop(_, _, _, _)
ScanLoop(src, no_skip, st, k) ==
    IF st.stack = <<>> THEN st
    ELSE IF k = 0 THEN ScanStep(src, no_skip, st)
    ELSE ScanLoop(src, no_skip, ScanLoop(src, no_skip, st, k - 1), k - 1)

\* the packet of lines 400-404, with the stack left and the iterations run
run_structure_scanner(src, no_skip) ==
    ScanLoop(src, no_skip,
             [stack |-> InitialStack(src), node_map |-> <<>>,
              root_collection_names |-> <<>>, traversal_order |-> <<>>,
              steps |-> 0],
             MaxScanDoublings)

\* ---- the external trees the scanner is run on ---------------------------
SrcNodes == 1..MaxSrcNodes

RECURSIVE IterParent(_, _, _)
IterParent(par, n, k) ==
    IF k = 0 \/ n = None THEN n ELSE IterParent(par, par[n], k - 1)

AcyclicParents(S) ==
    {par \in [S -> {None} \cup S] :
        \A n \in S : IterParent(par, n, Cardinality(S)) = None}

OrderedBy(perm, T) == SelectSeq(perm, LAMBDA x : x \in T)

\* a forest whose roots and siblings are declared in the order of perm
TreeShape(par, perm) ==
    [roots    |-> OrderedBy(perm, {n \in DOMAIN par : par[n] = None}),
     children |-> [n \in DOMAIN par |->
                      OrderedBy(perm, {c \in DOMAIN par : par[c] = n})]]

NameMarks == {{}} \cup {{z} : z \in ZoneMarkers}

\* one chain of `len` collections below a root, node k special
ChainSource(len, root_marks, k, special) ==
    [roots    |-> <<1>>,
     children |-> [n \in 1..len |-> IF n < len THEN <<n + 1>> ELSE <<>>],
     marks    |-> [n \in 1..len |->
                      IF n = 1 THEN root_marks
                      ELSE IF n = k /\ special = "INTERNALS" THEN {"INTERNALS"}
                      ELSE {}],
     skip     |-> [n \in 1..len |-> n = k /\ special = "SKIP"]]

\* small forests with every placement of the zone markers and the skip marker
InitTreeSource ==
    \E par \in AcyclicParents(SrcNodes) :
      \E perm \in {q \in DistinctSeqs(SrcNodes, MaxSrcNodes) : Len(q) = MaxSrcNodes} :
        \E mk \in [SrcNodes -> NameMarks], sk \in [SrcNodes -> BOOLEAN] :
            source = [roots    |-> TreeShape(par, perm).roots,
                      children |-> TreeShape(par, perm).children,
                      marks    |-> mk,
                      skip     |-> sk]

InitChainSource ==
    \E len \in 1..MaxChain, rm \in {{}, {"DISPLAYS"}}, k \in 2..MaxChain,
       special \in {"", "SKIP", "INTERNALS"} :
        source = ChainSource(len, rm, k, special)

\* pathological child links: any lists of children, cycles included
InitCyclicSource ==
    \E ch \in [SrcNodes -> DistinctSeqs(SrcNodes, MaxKidsInCycle)] :
        source = [roots |-> <<1>>, children |-> ch,
                  marks |-> [n \in SrcNodes |-> {}],
                  skip  |-> [n \in SrcNodes |-> FALSE]]

NoScan == [stack |-> <<>>, node_map |-> <<>>, root_collection_names |-> <<>>,
           traversal_order |-> <<>>, steps |-> 0]

InitScan ==
    /\ GuardVarsOff
    /\ LayoutVarsOff
    /\ TickVarsOff
    /\ SnapVarsOff
    /\ (InitTreeSource \/ InitChainSource \/ InitCyclicSource)
    /\ ignore_skip \in BOOLEAN
    /\ scan_result = NoScan
    /\ packet = <<>>
    /\ snap_calls = <<>>
    /\ raw_name = <<>>
    /\ parsed = <<>>
    /\ pipe_phase = "scan_in"

RunStructureScanner ==
    /\ pipe_phase = "scan_in"
    /\ scan_result' = run_structure_scanner(source, ignore_skip)
    /\ pipe_phase' = "scan_done"
    /\ UNCHANGED <<gvars, lvars, tvars, source, ignore_skip, packet, snap_calls, raw_name, parsed, ovars>>

NextScan == RunStructureScanner

SpecScan == InitScan /\ [][NextScan]_vars


\* ---- claims about the scanner --------------------------------------------
ScanDone == pipe_phase = "scan_done"

\* the collection whose children list holds n (None for a root)
SrcParent(src, n) ==
    IF \E p \in DOMAIN src.children : n \in Range(src.children[p])
    THEN CHOOSE p \in DOMAIN src.children : n \in Range(src.children[p])
    ELSE None

SrcParents(src) == [n \in DOMAIN src.children |-> SrcParent(src, n)]

\* every collection is declared once, as a root or as a child, without cycles
IsForest(src) ==
    /\ \A n \in DOMAIN src.children :
          Cardinality({p \in DOMAIN src.children : n \in Range(src.children[p])})
              + (IF n \in Range(src.roots) THEN 1 ELSE 0) = 1
    /\ \A n \in DOMAIN src.children :
          IterParent(SrcParents(src), n, Cardinality(DOMAIN src.children)) = None

SrcAncestors(src, n) == AncestorsOrSelf(SrcParents(src), n) \ {n}
SrcDepth(src, n) == Cardinality(SrcAncestors(src, n))

IndexIn(s, x) == CHOOSE i \in DOMAIN s : s[i] = x

\* the siblings of the source in declaration order: roots or one children list
SiblingListsOf(src) == {src.roots} \cup {src.children[p] : p \in DOMAIN src.children}

\* C13: on every forest, traversal_order lists each scanned node once, each
\* parent before its children and the whole scanned subtree of a sibling
\* before the next sibling; the roots and the children list of every node
\* are in the declaration order of the source.
C13_PreorderInDeclarationOrder ==
    (ScanDone /\ IsForest(source)) =>
        LET ord == scan_result.traversal_order
            nm == scan_result.node_map
            Seen(s) == SelectSeq(s, LAMBDA c : c \in DOMAIN nm)
        IN /\ Range(ord) = DOMAIN nm
           /\ Len(ord) = Cardinality(DOMAIN nm)
           /\ \A n \in DOMAIN nm :
                 /\ nm[n].parent = SrcParent(source, n)
                 /\ nm[n].parent # None =>
                        /\ nm[n].parent \in DOMAIN nm
                        /\ IndexIn(ord, nm[n].parent) < IndexIn(ord, n)
                 /\ nm[n].children = Seen(source.children[n])
           /\ scan_result.root_collection_names = source.roots
           /\ \A sibs \in SiblingListsOf(source) :
                 \A i \in DOMAIN sibs, j \in DOMAIN sibs :
                    (i < j /\ sibs[i] \in DOMAIN nm /\ sibs[j] \in DOMAIN nm) =>
                    \A d \in DOMAIN nm :
                       sibs[i] \in AncestorsOrSelf(SrcParents(source), d) =>
                       IndexIn(ord, d) < IndexIn(ord, sibs[j])

\* two roots declared against the numbering were scanned, the first of them
\* with a child of its own
C13_ScannedReorderedSiblings ==
    /\ ScanDone /\ IsForest(source)
    /\ Len(scan_result.root_collection_names) = 2
    /\ scan_result.root_collection_names[1] > scan_result.root_collection_names[2]
    /\ scan_result.node_map[scan_result.root_collection_names[1]].children # <<>>

\* descent below n was stopped by the skip marker or the Internal zone
Stopped(n) ==
    /\ ~ignore_skip
    /\ source.skip[n] \/ scan_result.node_map[n].tree_type = "INTERNAL"

\* the most loop iterations a scan of src can take: every root expands into
\* at most MaxKids children per level, MAX_UI_NESTING levels deep
RECURSIVE LevelSum(_, _)
LevelSum(k, d) == IF d = 0 THEN 1 ELSE 1 + k * LevelSum(k, d - 1)

MaxKids(src) ==
    IF DOMAIN src.children = {} THEN 0
    ELSE LET n == CHOOSE n \in DOMAIN src.children :
                     \A o \in DOMAIN src.children :
                        Len(src.children[o]) <= Len(src.children[n])
         IN Len(src.children[n])

StepBound(src) == Len(src.roots) * LevelSum(MaxKids(src), MAX_UI_NESTING)

\* the scan returned with an empty stack within the step bound
Terminated ==
    /\ scan_result.stack = <<>>
    /\ scan_result.steps <= StepBound(source)

\* C14 as stated: after a scan no node deeper than MAX_UI_NESTING is in
\* node_map or traversal_order, every scanned node at that depth with
\* children in the source is flagged overflow, no shallower node is, and the
\* scan terminates on every source, cyclic ones included.
C14_Original ==
    ScanDone =>
        /\ Terminated
        /\ IsForest(source) =>
              /\ \A n \in DOMAIN scan_result.node_map \cup
                           Range(scan_result.traversal_order) :
                     SrcDepth(source, n) <= MAX_UI_NESTING
              /\ \A n \in DOMAIN scan_result.node_map :
                     /\ (SrcDepth(source, n) = MAX_UI_NESTING
                            /\ source.children[n] # <<>>) =>
                        scan_result.node_map[n].overflow
                     /\ SrcDepth(source, n) < MAX_UI_NESTING =>
                        ~scan_result.node_map[n].overflow

\* C14, amended: the same, the overflow flag being set only on a node at the
\* cap whose descent was not already stopped by the skip marker or the
\* Internal zone.
C14_DepthCap ==
    ScanDone =>
        /\ Terminated
        /\ IsForest(source) =>
              /\ \A n \in DOMAIN scan_result.node_map \cup
                           Range(scan_result.traversal_order) :
                     SrcDepth(source, n) <= MAX_UI_NESTING
              /\ \A n \in DOMAIN scan_result.node_map :
                     scan_result.node_map[n].overflow <=>
                        /\ SrcDepth(source, n) = MAX_UI_NESTING
                        /\ source.children[n] # <<>>
                        /\ ~Stopped(n)

\* a chain deeper than the cap was scanned down to the cap and cut there
C14_CutAtCap ==
    /\ ScanDone /\ IsForest(source)
    /\ \E n \in DOMAIN scan_result.node_map :
          /\ scan_result.node_map[n].overflow
          /\ \E c \in Range(source.children[n]) : c \notin DOMAIN scan_result.node_map

\* C15: with ignore_skip false, a scanned node that is Internal-zoned or
\* carries the skip marker has an empty children list and none of its
\* descendants in the source is in node_map or traversal_order.
C15_NoDescentBelowSkipped ==
    (ScanDone /\ IsForest(source) /\ ~ignore_skip) =>
        \A n \in DOMAIN scan_result.node_map :
           Stopped(n) =>
              /\ scan_result.node_map[n].children = <<>>
              /\ \A d \in DOMAIN source.children :
                     n \in SrcAncestors(source, d) =>
                        /\ d \notin DOMAIN scan_result.node_map
                        /\ d \notin Range(scan_result.traversal_order)

\* a skip-marked node with children in the source was scanned
C15_SkippedWithChildren ==
    /\ ScanDone /\ IsForest(source) /\ ~ignore_skip
    /\ \E n \in DOMAIN scan_result.node_map :
          source.skip[n] /\ source.children[n] # <<>>

\* C16 as stated: a scanned child takes the zone of its own marker when its
\* name carries one that differs from its parent's zone, and its parent's
\* zone otherwise.
C16_ZoneOverride ==
    (ScanDone /\ IsForest(source)) =>
        \A n \in DOMAIN scan_result.node_map :
           LET p == scan_result.node_map[n].parent
               own == ZoneOfName(source.marks[n])
           IN p # None =>
                 scan_result.node_map[n].tree_type =
                    IF own # "NONE" /\ own # scan_result.node_map[p].tree_type
                    THEN own ELSE scan_result.node_map[p].tree_type


\* ======================================================================
\* Parser specification: _parse_collection_name and run_data_parsing
\* ======================================================================
\* A name is a sequence of tokens: the delimiter characters, the blank, the
\* quote, and words that stand for runs of other characters.
MaxPieces == 3       \* pieces a raw name is put together from

Blank == " "
Quote == "'"
Words == {"HIDE", "FILTER", "ICON", "FOO", "A", "IFHIDDEN", "ifhidden",
          "BONE_DATA", "NOPE"}

\* FLAG_CONFIG, lines 64-78
FlagKeys == {"INLINE", "LINK", "ICON", "JOIN", "HIDE", "TO", "SKIP", "FILTER",
             "DISPLAYS", "SETTINGS", "SNAPS", "INTERNALS", "BOARD"}
DYNAMIC_PARAM == {<<"__DYNAMIC__">>}
NoParams == {}
FlagParams(f) ==
    IF f = "ICON" THEN DYNAMIC_PARAM
    ELSE IF f = "FILTER" THEN {<<"IFHIDDEN">>}
    ELSE NoParams
\* _get_valid_blender_icons()
ValidIcons == {<<"BONE_DATA">>}
HasValidator(f) == f = "ICON"

\* str.upper() on a token
UpperTok(t) == IF t = "ifhidden" THEN "IFHIDDEN" ELSE t
Upper(str) == [i \in DOMAIN str |-> UpperTok(str[i])]

\* str.strip()
RECURSIVE LStrip(_)
LStrip(str) ==
    IF str # <<>> /\ Head(str) = Blank THEN LStrip(Tail(str)) ELSE str
RECURSIVE RStrip(_)
RStrip(str) ==
    IF str # <<>> /\ str[Len(str)] = Blank
    THEN RStrip(SubSeq(str, 1, Len(str) - 1)) ELSE str
Strip(str) == RStrip(LStrip(str))

\* the first position from i on that holds token t, 0 if there is none
RECURSIVE FirstAt(_, _, _)
FirstAt(str, t, i) ==
    IF i > Len(str) THEN 0
    ELSE IF str[i] = t THEN i
    ELSE FirstAt(str, t, i + 1)

\* the first position from i on that holds no blank (Len + 1 if none)
RECURSIVE SkipBlanks(_, _)
SkipBlanks(str, i) ==
    IF i <= Len(str) /\ str[i] = Blank THEN SkipBlanks(str, i + 1) ELSE i

\* a bracket group [x...] opening at position i: the position of its "]", or 0
BracketEnd(str, i) ==
    IF i <= Len(str) /\ str[i] = "[" /\ FirstAt(str, "]", i + 1) >= i + 2
    THEN FirstAt(str, "]", i + 1) ELSE 0

\* _EXPLICIT_NAME_PATTERN at position i: the position of the closing brace, or 0
BraceEnd(str, i) ==
    IF i <= Len(str) /\ str[i] = "{" /\ FirstAt(str, "}", i + 1) >= i + 2
    THEN FirstAt(str, "}", i + 1) ELSE 0

\* _EXPLICIT_NAME_PATTERN.search: the leftmost match from i on, as
\* [start, close, end]; start = 0 when there is none
NoMatch == [start |-> 0, close |-> 0, end |-> 0]
ExplicitMatchAt(i, close, bracket) ==
    [start |-> i, close |-> close, end |-> IF bracket > 0 THEN bracket ELSE close]
RECURSIVE ExplicitNameSearch(_, _)
ExplicitNameSearch(str, i) ==
    IF i > Len(str) THEN NoMatch
    ELSE IF BraceEnd(str, i) > 0
         THEN ExplicitMatchAt(i, BraceEnd(str, i),
                              BracketEnd(str, BraceEnd(str, i) + 1))
         ELSE ExplicitNameSearch(str, i + 1)

MatchesAt(str, pat, i) ==
    /\ i + Len(pat) - 1 <= Len(str)
    /\ SubSeq(str, i, i + Len(pat) - 1) = pat

\* str.replace(pat, ""): every occurrence, left to right, is removed
RECURSIVE ReplaceAll(_, _, _)
ReplaceAll(str, pat, i) ==
    IF i > Len(str) THEN <<>>
    ELSE IF MatchesAt(str, pat, i) THEN ReplaceAll(str, pat, i + Len(pat))
    ELSE <<str[i]>> \o ReplaceAll(str, pat, i + 1)

\* _FLAG_TUPLE_PATTERN at position i for the flag names in keys
TupleAt(str, keys, i) ==
    /\ i + 2 <= Len(str)
    /\ str[i] = "("
    /\ str[i + 1] \in keys
    /\ str[i + 2] = ")"
\* the end of the match that starts at i, its optional parameter included
TupleEnd(str, i) ==
    IF BracketEnd(str, SkipBlanks(str, i + 3)) > 0
    THEN BracketEnd(str, SkipBlanks(str, i + 3)) ELSE i + 2
TupleParam(str, i) ==
    IF BracketEnd(str, SkipBlanks(str, i + 3)) > 0
    THEN SubSeq(str, SkipBlanks(str, i + 3) + 1,
                BracketEnd(str, SkipBlanks(str, i + 3)) - 1)
    ELSE <<>>

\* _FLAG_TUPLE_PATTERN.findall(remain)
RECURSIVE FindTuples(_, _, _)
FindTuples(str, keys, i) ==
    IF i > Len(str) THEN <<>>
    ELSE IF TupleAt(str, keys, i)
         THEN <<<<str[i + 1], TupleParam(str, i)>>>>
                  \o FindTuples(str, keys, TupleEnd(str, i) + 1)
         ELSE FindTuples(str, keys, i + 1)

\* _FLAG_TUPLE_PATTERN.sub("", remain)
RECURSIVE SubTuples(_, _, _)
SubTuples(str, keys, i) ==
    IF i > Len(str) THEN <<>>
    ELSE IF TupleAt(str, keys, i) THEN SubTuples(str, keys, TupleEnd(str, i) + 1)
    ELSE <<str[i]>> \o SubTuples(str, keys, i + 1)

\* lines 437-440: the parameter as the rules see it
NormalizedParam(p) ==
    IF p = <<>> THEN p
    ELSE IF Strip(p) # <<>> /\ Head(Strip(p)) = Quote
                            /\ Strip(p)[Len(Strip(p))] = Quote
         THEN SubSeq(Strip(p), 2, Len(Strip(p)) - 1)
         ELSE Upper(Strip(p))

\* error_msg values; None is <<>>
NoError == <<>>
ErrLeftover(leftover) == <<"SYNTAX ERROR: ">> \o leftover
ErrNoParams(f) == <<"SYNTAX ERROR: ", f, " takes no parameters">>
ErrNotValidFor(p, f) == <<"SYNTAX ERROR: '">> \o p \o <<"' is not valid for ", f>>
ErrMissing(f) == <<"SYNTAX ERROR: ", f, " missing parameter">>
ErrInvalid(p) == <<"SYNTAX ERROR: '">> \o p \o <<"' invalid">>

\* lines 442-448: the message of the parameter rules
ParamMsg(f, p) ==
    IF FlagParams(f) = NoParams /\ p # <<>> THEN ErrNoParams(f)
    ELSE IF /\ p # <<>>
            /\ FlagParams(f) # NoParams
            /\ FlagParams(f) # DYNAMIC_PARAM
            /\ p \notin FlagParams(f)
         THEN ErrNotValidFor(p, f)
         ELSE NoError

\* lines 449-453: the message after the validator
ValidatorMsg(f, p, msg) ==
    IF msg = NoError /\ HasValidator(f)
    THEN IF p = <<>> THEN ErrMissing(f)
         ELSE IF p \notin ValidIcons THEN ErrInvalid(p)
         ELSE NoError
    ELSE msg

NoIcon == <<>>
IconError == <<"ERROR">>

\* lines 452-461 for one tuple, its message known
ApplyTuple(acc, f, p, param_msg, msg) ==
    [valid  |-> acc.valid /\ msg = NoError,
     err    |-> IF msg # NoError THEN msg ELSE acc.err,
     clean  |-> acc.clean,
     flags  |-> Append(acc.flags, <<f, p>>),
     active |-> acc.active \cup {f},
     icon   |-> IF msg = NoError
                THEN (IF f = "ICON" THEN p ELSE acc.icon)
                ELSE IF /\ f = "ICON"
                        /\ param_msg = NoError
                        /\ p # <<>>
                     THEN IconError ELSE acc.icon]

\* lines 432-461: the loop body for the tuple (f, p) of findall
FlagStepOn(acc, f, p) ==
    ApplyTuple(acc, f, p, ParamMsg(f, p), ValidatorMsg(f, p, ParamMsg(f, p)))
FlagStep(acc, tuple) == FlagStepOn(acc, tuple[1], NormalizedParam(tuple[2]))

RECURSIVE FlagLoop(_, _)
FlagLoop(acc, tuples) ==
    IF tuples = <<>> THEN acc
    ELSE FlagLoop(FlagStep(acc, Head(tuples)), Tail(tuples))

\* lines 463-464
ParseResult(raw, acc) ==
    [id |-> raw, clean_name |-> acc.clean, flag_list |-> acc.flags,
     active_flags |-> acc.active, icon_name |-> acc.icon,
     is_valid |-> acc.valid, error_msg |-> acc.err]

\* lines 426-431 on the remainder after the label was cut out
AfterLeftover(clean, leftover) ==
    [valid |-> leftover = <<>>,
     err   |-> IF leftover # <<>> THEN ErrLeftover(leftover) ELSE NoError,
     clean |-> IF leftover # <<>> THEN <<>> ELSE clean,
     flags |-> <<>>, active |-> {}, icon |-> NoIcon]

\* lines 422-461
ParseRemain(raw, clean, remain) ==
    ParseResult(raw,
        FlagLoop(AfterLeftover(clean, Strip(SubTuples(remain, FlagKeys, 1))),
                 FindTuples(remain, FlagKeys, 1)))

\* lines 417-421 for the match m
ParseWithMatch(raw, m) ==
    IF m.start = 0 THEN ParseRemain(raw, <<>>, raw)
    ELSE ParseRemain(raw,
                     Strip(SubSeq(raw, m.start + 1, m.close - 1)),
                     ReplaceAll(raw, SubSeq(raw, m.start, m.end), 1))

parse_collection_name(raw) == ParseWithMatch(raw, ExplicitNameSearch(raw, 1))

\* run_data_parsing, line 475
FinalLabel(res) == IF ~res.is_valid THEN res.error_msg ELSE res.clean_name

\* ---- the raw names the parser is run on
Pieces ==
    {<<"{", "A", "}">>,
     <<"{", "A", "}", "[", "A", "]">>,
     <<"(", "HIDE", ")">>,
     <<"(", "HIDE", ")", "[", "A", "]">>,
     <<"(", "FILTER", ")", "[", "ifhidden", "]">>,
     <<"(", "FILTER", ")", "[", "A", "]">>,
     <<"(", "ICON", ")", "[", "BONE_DATA", "]">>,
     <<"(", "ICON", ")", "[", "NOPE", "]">>,
     <<"(", "ICON", ")", " ", "[", "'", "BONE_DATA", "'", "]">>,
     <<"(", "ICON", ")">>,
     <<"(", "FOO", ")">>,
     <<"(", "HIDE">>,
     <<")">>,
     <<"A">>,
     <<" ">>}

NoParse == <<>>

InitParse ==
    /\ GuardVarsOff
    /\ LayoutVarsOff
    /\ TickVarsOff
    /\ SnapVarsOff
    /\ source = <<>>
    /\ ignore_skip = FALSE
    /\ scan_result = <<>>
    /\ packet = <<>>
    /\ snap_calls = <<>>
    /\ \E n \in 0..MaxPieces : \E parts \in [1..n -> Pieces] :
          raw_name = Concat(parts)
    /\ parsed = NoParse
    /\ pipe_phase = "parse_in"

\* run_data_parsing on the node named raw_name: parsed holds the parser's
\* result and the label written to the node
RunDataParsing ==
    /\ pipe_phase = "parse_in"
    /\ parsed' = [res   |-> parse_collection_name(raw_name),
                  label |-> FinalLabel(parse_collection_name(raw_name))]
    /\ pipe_phase' = "parsed"
    /\ UNCHANGED <<gvars, lvars, tvars, source, ignore_skip, scan_result, packet,
                   snap_calls, raw_name, ovars>>

NextParse == RunDataParsing

SpecParse == InitParse /\ [][NextParse]_vars

Parsed == pipe_phase = "parsed"

\* the positions of the name covered by the label span (the leftmost match of
\* the label pattern) and by flag tuples, registered or not, that lie in the
\* text before or after it
LabelSpan == ExplicitNameSearch(raw_name, 1)
TextBefore ==
    IF LabelSpan.start = 0 THEN raw_name ELSE SubSeq(raw_name, 1, LabelSpan.start - 1)
TextAfter ==
    IF LabelSpan.start = 0 THEN <<>>
    ELSE SubSeq(raw_name, LabelSpan.end + 1, Len(raw_name))
OutsideSpans == SubTuples(TextBefore, Words, 1) \o SubTuples(TextAfter, Words, 1)

\* C19: whenever text other than blanks is left of a name once its label
\* span and every flag tuple (of a registered flag name or not) are taken
\* out, the parser returns is_valid = false. Fails: every further occurrence
\* of the label span's text is taken out with it, and what stood on both
\* sides of the label span is read as one text.
C19_LeftoverIsInvalid ==
    (Parsed /\ Strip(OutsideSpans) # <<>>) => ~parsed.res.is_valid

\* C20: whenever the parser returns is_valid = false, clean_name is the empty
\* string and the label written by run_data_parsing is the error message.
\* Fails: an invalid flag parameter leaves clean_name as the label text.
C20_InvalidHasEmptyLabel ==
    (Parsed /\ ~parsed.res.is_valid) =>
        /\ parsed.res.clean_name = <<>>
        /\ parsed.label = parsed.res.error_msg
        /\ parsed.res.error_msg # NoError


\* the parameters of the ICON tuples of the name that validated, in order
ValidIconParams ==
    SelectSeq(parsed.res.flag_list,
              LAMBDA t : t[1] = "ICON" /\ t[2] \in ValidIcons)

\* C21: when some ICON tuple of the name validated, the icon returned is the
\* parameter of the last one that did; an invalid ICON tuple after a valid
\* one does not replace it. Fails: an ICON tuple whose parameter the
\* validator rejects sets the icon to 'ERROR', also after a valid one.
C21_IconIsLastValid ==
    (Parsed /\ ValidIconParams # <<>>) =>
        parsed.res.icon_name = ValidIconParams[Len(ValidIconParams)][2]


\* ======================================================================
\* Operator specification: RRUG_OT_snap_hierarchy_batch.execute
\* ======================================================================
MaxSnapPairs == 2    \* snap pairs of the group the operator is run on
MaxBonesPerCollection == 2   \* bones assigned to one pair collection

BoneNames == {"a.L", "a.R", "b"}
Channels == {"loc", "rot", "scl"}

\* s_name.endswith(".L") / (".R"), and the name with the other suffix
EndsWithL(n) == n = "a.L"
EndsWithR(n) == n = "a.R"
Opposite(n) == IF n = "a.L" THEN "a.R" ELSE IF n = "a.R" THEN "a.L" ELSE "none"

\* sorted(c.bones, key=name): the names in ascending order
BoneOrder == <<"a.L", "a.R", "b">>
SortedBones(S) == SelectSeq(BoneOrder, LAMBDA n : n \in S)

\* the pose before the operator runs: every bone has values of its own
RestPose ==
    [n \in BoneNames |->
        [c \in Channels |-> IF n = "a.L" THEN 1 ELSE IF n = "a.R" THEN 2 ELSE 3]]

\* snap_mode = (snap_loc, snap_rot, snap_scale) as the set of snapped channels
SnapModes == {{"loc", "rot", "scl"}, {"loc"}, {}}

\* get_composed_matrix, lines 176-182
get_composed_matrix(source_matrix, target_matrix, mode) ==
    [c \in Channels |-> IF c \in mode THEN target_matrix[c] ELSE source_matrix[c]]

\* apply_keyframes, lines 184-191
apply_keyframes(keys, bone, mode) == keys \cup {<<bone, c>> : c \in mode}

\* apply(s_name, t_name), lines 1452-1463, on st = [bones, keys, l_set, r_set]
ApplySnap(st, op, s_name, t_name) ==
    [bones |-> [st.bones EXCEPT ![s_name] =
                   get_composed_matrix(st.bones[s_name], st.bones[t_name], op.mode)],
     keys  |-> IF op.keys THEN apply_keyframes(st.keys, s_name, op.mode) ELSE st.keys,
     l_set |-> IF op.mirror /\ EndsWithL(s_name) THEN st.l_set \cup {s_name}
               ELSE st.l_set,
     r_set |-> IF op.mirror /\ ~EndsWithL(s_name) /\ EndsWithR(s_name)
               THEN st.r_set \cup {s_name} ELSE st.r_set]

\* for s, t in zip(srcs, tgts), line 1470
RECURSIVE ApplyZip(_, _, _, _)
ApplyZip(st, op, srcs, tgts) ==
    IF srcs = <<>> \/ tgts = <<>> THEN st
    ELSE ApplyZip(ApplySnap(st, op, Head(srcs), Head(tgts)), op, Tail(srcs), Tail(tgts))

\* for sc, tc in resolved, lines 1467-1471
RECURSIVE ApplyResolved(_, _, _)
ApplyResolved(st, op, resolved) ==
    IF resolved = <<>> THEN st
    ELSE ApplyResolved(ApplyZip(st, op, SortedBones(Head(resolved)[1]),
                                SortedBones(Head(resolved)[2])),
                       op, Tail(resolved))

\* did_update of one pass: some zip of the pass is not empty
DidUpdate(resolved) ==
    \E i \in DOMAIN resolved : resolved[i][1] # {} /\ resolved[i][2] # {}

\* for _ in range(max(1, len(resolved))), lines 1465-1474
RECURSIVE SnapPasses(_, _, _)
SnapPasses(st, op, left) ==
    IF left = 0 \/ ~DidUpdate(op.resolved) THEN st
    ELSE SnapPasses(ApplyResolved(st, op, op.resolved), op, left - 1)

PassCount(resolved) == IF Len(resolved) > 1 THEN Len(resolved) ELSE 1

\* bpy.ops.pose.paste(flipped=True) as seen by one channel value
Flipped(v) == 0 - v

\* run_mirror for one selected name, lines 1483-1502: the opposite bone takes
\* the flipped pose, its channels outside the mode are put back
MirrorOnto(st, op, n) ==
    IF Opposite(n) \notin DOMAIN st.bones THEN st
    ELSE [st EXCEPT
            !.bones[Opposite(n)] =
                [c \in Channels |-> IF c \in op.mode THEN Flipped(st.bones[n][c])
                                    ELSE st.bones[Opposite(n)][c]],
            !.keys = IF op.keys THEN apply_keyframes(@, Opposite(n), op.mode) ELSE @]

RECURSIVE RunMirror(_, _, _)
RunMirror(st, op, names) ==
    IF names = <<>> THEN st
    ELSE RunMirror(MirrorOnto(st, op, Head(names)), op, Tail(names))

\* lines 1476-1513 on the state the snap passes left
MirrorStage(st, op) ==
    IF op.mirror /\ (st.l_set # {} \/ st.r_set # {})
    THEN IF op.has_view
         THEN [st      |-> RunMirror(RunMirror(st, op, SortedBones(st.l_set)),
                                     op, SortedBones(st.r_set)),
               result  |-> "FINISHED", warning |-> FALSE]
         ELSE [st |-> st, result |-> "CANCELLED", warning |-> TRUE]
    ELSE [st |-> st, result |-> "FINISHED", warning |-> FALSE]

\* execute, lines 1435-1514
snap_hierarchy_execute(bones, keys, op) ==
    IF op.resolved = <<>>
    THEN [st |-> [bones |-> bones, keys |-> keys, l_set |-> {}, r_set |-> {}],
          result |-> "CANCELLED", warning |-> FALSE]
    ELSE MirrorStage(SnapPasses([bones |-> bones, keys |-> keys,
                                 l_set |-> {}, r_set |-> {}],
                                op, PassCount(op.resolved)),
                     op)

PairCollections ==
    {S \in SUBSET BoneNames : S # {} /\ Cardinality(S) <= MaxBonesPerCollection}

InitSnap ==
    /\ GuardVarsOff
    /\ LayoutVarsOff
    /\ TickVarsOff
    /\ PipeVarsOff
    /\ pose_bones = RestPose
    /\ keyframes = {}
    /\ \E n \in 0..MaxSnapPairs :
         \E resolved \in [1..n -> PairCollections \X PairCollections] :
           \E mode \in SnapModes, keys \in BOOLEAN, mirror \in BOOLEAN,
              has_view \in BOOLEAN :
               snap_op = [resolved |-> resolved, mode |-> mode, keys |-> keys,
                          mirror |-> mirror, has_view |-> has_view,
                          result |-> "none", warning |-> FALSE]

\* the operator runs once
SnapHierarchyBatch ==
    /\ snap_op.result = "none"
    /\ \E r \in {snap_hierarchy_execute(pose_bones, keyframes, snap_op)} :
          /\ pose_bones' = r.st.bones
          /\ keyframes' = r.st.keys
          /\ snap_op' = [snap_op EXCEPT !.result = r.result, !.warning = r.warning]
    /\ UNCHANGED <<gvars, lvars, tvars, pvars>>

NextSnap == SnapHierarchyBatch

SpecSnap == InitSnap /\ [][NextSnap]_vars

\* C22: when the snap-hierarchy action is cancelled with the warning that no
\* 3D viewport is available, no bone transform has been modified and no
\* keyframe has been inserted. Fails: the viewport is looked for only after
\* the snap passes have written the matrices and keyframes.
C22_CancelledLeavesStateUnchanged ==
    (snap_op.result = "CANCELLED" /\ snap_op.warning) =>
        /\ pose_bones = RestPose
        /\ keyframes = {}

====
